---- MODULE Spec2Model ----
(***************************************************************************)
(* Model of the Omniscient Code Index (bobamatcha/omni): the shared index  *)
(* state (src/src/state.rs), the incremental indexer                       *)
(* (src/src/incremental.rs), the on-disk cache (src/src/cache.rs) and the  *)
(* search-document persistence and queries (src/src/query.rs), the Rust    *)
(* parser (src/src/parsing/rust.rs), the dead-code analysis                *)
(* (src/src/analysis/dead_code.rs), the BM25 index                         *)
(* (src/src/search/bm25.rs), the topology builder (src/src/topology.rs),   *)
(* the intervention engine (src/src/intervention/mod.rs) and the context   *)
(* synthesizer (src/src/context/mod.rs).                                   *)
(*                                                                         *)
(* Specifications over the same variables:                                 *)
(*   SpecState   : the public operations of OciState and the per-file      *)
(*                 operations of IncrementalIndexer, called in any order;  *)
(*   SpecIndex   : IncrementalIndexer::index run step by step against a    *)
(*                 file system and a cache directory, with interruptions;  *)
(*   SpecNames   : add_symbol called with any SymbolDef;                   *)
(*   SpecIds     : the FileIds handed out across clear_file and reset;     *)
(*   SpecThreads : get_or_create_file_id called by two threads at once;    *)
(*   SpecDead    : DeadCodeAnalyzer::analyze on the States a build makes;  *)
(*   SpecQuery   : execute_query on the search index loaded from the cache;*)
(*   SpecTokens  : the tokenizer of the BM25 index on short texts;         *)
(*   SpecTopology: TopologyBuilder::build and compute_pagerank;            *)
(*   SpecSuggest : InterventionEngine::suggest_alternatives;               *)
(*   SpecContext : ContextSynthesizer::build_context;                      *)
(*   SpecBm25    : Bm25Index::add_document and finalize;                   *)
(*   SpecTopK    : execute_query with filters over a larger index;         *)
(*   SpecReach   : compute_reachable with its queue.                       *)
(***************************************************************************)
EXTENDS Integers, Sequences, FiniteSets, TLC

VARIABLES
    state,          \* the OciState of the running process
    last_op,        \* the last operation called, its path and what it returned
    issued,         \* SpecIds: the FileIds the calls have returned, per path
    threads,        \* SpecThreads: position and locals of each thread in its call
    fs,             \* source tree: relative path -> Absent or [mtime_ms, contents]
    manifest_json,  \* .omni/manifest.json
    state_bin,      \* .omni/state.bin
    bm25_bin,       \* .omni/bm25.bin
    pc,             \* position of the index call in its serial sequence
    run,            \* locals of the index call in flight
    result,         \* what the last index call returned
    hist            \* history since the last completed index call

vars == <<state, last_op, issued, threads, fs, manifest_json, state_bin, bm25_bin, pc, run,
          result, hist>>

\* what the callers of the State operations hold
callerVars == <<last_op, issued, threads>>

indexVars == <<fs, manifest_json, state_bin, bm25_bin, pc, run, result, hist>>

-----------------------------------------------------------------------------
(* Bounds of the model *)

\* largest modification time a file takes
MaxMtime == 2
\* longest name_to_scoped entry and call-edge log the State operations build
MaxVec == 2
\* largest value the symbol counter takes
MaxSymbolCount == 3
\* largest value the FileId counter takes when threads call concurrently
MaxFileIds == 3
\* the symbols of a State handed to the dead-code analysis
MaxAnalyzed == 5
\* the largest top_k a query is executed with
MaxTopK == 2
\* the longest of the generated texts handed to tokenize
MaxText == 3
\* number of events of the environment in a behaviour: changes of the source
\* tree, failures, interruptions, restarts
MaxEvents == 4

-----------------------------------------------------------------------------
(* Generic helpers: maps with a dynamic key set (DashMap / HashMap) *)

\* Option<T>: None, or Some(v)
None == <<>>
Some(v) == <<v>>

EmptyMap == [k \in {} |-> None]

Put(m, k, v) == [x \in (DOMAIN m) \cup {k} |-> IF x = k THEN v ELSE m[x]]

Remove(m, k) == [x \in (DOMAIN m) \ {k} |-> m[x]]

Get(m, k) == IF k \in DOMAIN m THEN Some(m[k]) ELSE None

Range(s) == {s[i] : i \in DOMAIN s}

\* Vec::retain / Iterator::filter on a sequence
Retain(s, keep(_)) == SelectSeq(s, keep)

-----------------------------------------------------------------------------
(* Paths *)

Root == "/repo"

\* the source files that come and go in the tree
SourceFiles == {"a.rs", "b.rs"}

\* a file of the tree that no parser handles
OtherFiles == {"README.md"}

\* Path::extension of the files of the tree
Extension(rel) == IF rel \in SourceFiles \cup {"mod.rs"} THEN "rs" ELSE "md"

\* Path::file_stem, as path_tokens keeps it
FileStem(rel) == CASE rel = "a.rs" -> "a" [] rel = "b.rs" -> "b" [] OTHER -> "readme"

\* root.join(rel)
path_join(root, rel) == <<root, rel>>

\* relative_path(root, path): strip_prefix, an error outside the root
relative_path(root, path) == IF path[1] = root THEN path[2] ELSE "Err"

parser_for_file(path) ==
    IF Extension(path[Len(path)]) \in {"rs"} THEN Some("RustParser") ELSE None

AbsPaths == {path_join(Root, rel) : rel \in SourceFiles}

-----------------------------------------------------------------------------
(* Source texts and the Rust extraction *)

\* fn name() { calls }: private, without attribute
FnItem(name, calls, start) ==
    [kind |-> "function_item", name |-> name, calls |-> calls,
     visibility |-> "Private", attributes |-> <<>>, body |-> <<>>,
     start_byte |-> start, end_byte |-> start + 2 + Len(calls)]

UseItem(path, start) ==
    [kind |-> "use_declaration", name |-> path, calls |-> <<>>,
     visibility |-> "Private", attributes |-> <<>>, body |-> <<>>,
     start_byte |-> start, end_byte |-> start + 1]

\* struct name;
StructItem(name, start) ==
    [kind |-> "struct_item", name |-> name, calls |-> <<>>,
     visibility |-> "Private", attributes |-> <<>>, body |-> <<>>,
     start_byte |-> start, end_byte |-> start + 1]

\* impl ty { body }, the functions of the body within the span of the block
ImplItem(ty, body, start) ==
    [kind |-> "impl_item", name |-> ty, calls |-> <<>>,
     visibility |-> "Private", attributes |-> <<>>, body |-> body,
     start_byte |-> start, end_byte |-> body[Len(body)].end_byte + 1]

\* the item behind the visibility modifier `pub`
Pub(item) == [item EXCEPT !.visibility = "Public"]

\* fn foo() {}
SrcFoo == << FnItem("foo", <<>>, 0) >>
\* use foo; fn bar() { foo() }
SrcBar == << UseItem("foo", 0), FnItem("bar", <<"foo">>, 1) >>
\* a file with no item
SrcEmpty == << >>

\* the contents the direct per-file operations read
Sources == {SrcFoo, SrcBar, SrcEmpty}

\* the contents the files of the tree take
TreeSources == {SrcFoo, SrcBar}

\* metadata.len()
SizeBytes(src) == IF src = <<>> THEN 0 ELSE src[Len(src)].end_byte

join_scope(module_stack) == module_stack

current_impl_type(impl_type_stack) ==
    IF impl_type_stack = <<>> THEN None ELSE Some(impl_type_stack[Len(impl_type_stack)])

\* the scoped name of a function item: module, then the impl type, then the name
fn_scoped(module_stack, impl_type_stack, fn_name) ==
    join_scope(module_stack)
        \o (IF current_impl_type(impl_type_stack) # None
            THEN <<current_impl_type(impl_type_stack)[1]>> ELSE <<>>)
        \o <<fn_name>>

\* walk_rust_symbols over a sequence of sibling nodes: the symbol of the node,
\* then those of its children, then those of the following siblings
RECURSIVE walk_rust_symbols(_, _, _, _)
walk_rust_symbols(nodes, file, module_stack, impl_type_stack) ==
    IF nodes = <<>> THEN <<>>
    ELSE LET node == Head(nodes)
             location == [file |-> file, start_byte |-> node.start_byte,
                          end_byte |-> node.end_byte]
             entered ==
                 IF node.kind = "impl_item" THEN Append(impl_type_stack, node.name)
                 ELSE impl_type_stack
             parent ==
                 IF current_impl_type(impl_type_stack) # None
                 THEN Some(<<current_impl_type(impl_type_stack)[1]>>) ELSE None
             own ==
                 CASE node.kind = "impl_item" ->
                        << [name        |-> node.name,
                            scoped_name |-> join_scope(module_stack) \o <<node.name>>,
                            kind        |-> "Impl",
                            location    |-> location,
                            visibility  |-> "Private",
                            attributes  |-> node.attributes,
                            parent      |-> None] >>
                   [] node.kind = "function_item" ->
                        << [name        |-> node.name,
                            scoped_name |-> fn_scoped(module_stack, impl_type_stack, node.name),
                            kind        |-> IF parent # None THEN "Method" ELSE "Function",
                            location    |-> location,
                            visibility  |-> node.visibility,
                            attributes  |-> node.attributes,
                            parent      |-> parent] >>
                   [] node.kind = "struct_item" ->
                        << [name        |-> node.name,
                            scoped_name |-> join_scope(module_stack) \o <<node.name>>,
                            kind        |-> "Struct",
                            location    |-> location,
                            visibility  |-> node.visibility,
                            attributes  |-> node.attributes,
                            parent      |-> None] >>
                   [] OTHER -> <<>>
         IN own \o walk_rust_symbols(node.body, file, module_stack, entered)
                \o walk_rust_symbols(Tail(nodes), file, module_stack, impl_type_stack)

\* RustParser::extract_symbols: the walk from the root, module_stack = ["crate"]
extract_symbols(src, file) == walk_rust_symbols(src, file, <<"crate">>, <<>>)

\* walk_rust_calls: one edge per call expression, caller = enclosing function
RECURSIVE walk_rust_calls(_, _, _, _)
walk_rust_calls(nodes, file, module_stack, impl_type_stack) ==
    IF nodes = <<>> THEN <<>>
    ELSE LET node == Head(nodes)
             entered ==
                 IF node.kind = "impl_item" THEN Append(impl_type_stack, node.name)
                 ELSE impl_type_stack
         IN [i \in 1..Len(node.calls) |->
               [caller      |-> fn_scoped(module_stack, impl_type_stack, node.name),
                callee_name |-> node.calls[i],
                location    |-> [file |-> file, start_byte |-> node.start_byte + i,
                                 end_byte |-> node.start_byte + i + 1]]]
            \o walk_rust_calls(node.body, file, module_stack, entered)
            \o walk_rust_calls(Tail(nodes), file, module_stack, impl_type_stack)

\* RustParser::extract_calls
extract_calls(src, file) == walk_rust_calls(src, file, <<"crate">>, <<>>)

\* walk_rust_imports
extract_imports(src, file) ==
    LET uses == Retain(src, LAMBDA it : it.kind = "use_declaration")
    IN [i \in 1..Len(uses) |->
          [path |-> uses[i].name, name |-> uses[i].name,
           location |-> [file |-> file, start_byte |-> uses[i].start_byte,
                         end_byte |-> uses[i].end_byte]]]

\* the nodes of a file, every node followed by its children
RECURSIVE Nodes(_)
Nodes(nodes) ==
    IF nodes = <<>> THEN <<>>
    ELSE <<Head(nodes)>> \o Nodes(Head(nodes).body) \o Nodes(Tail(nodes))

Keyword(kind) ==
    CASE kind = "function_item" -> "fn"
      [] kind = "struct_item" -> "struct"
      [] kind = "impl_item" -> "impl"
      [] OTHER -> "use"

\* the words of the text of a node
RECURSIVE TextOf(_)
TextOf(nodes) ==
    IF nodes = <<>> THEN <<>>
    ELSE <<Keyword(Head(nodes).kind), Head(nodes).name>> \o Head(nodes).calls
            \o TextOf(Head(nodes).body) \o TextOf(Tail(nodes))

\* slice_utf8(contents, start, end): the words of the span, empty when start >= end
slice_utf8(src, start, end) ==
    IF start >= end THEN <<>>
    ELSE LET its == Retain(Nodes(src), LAMBDA it : it.start_byte >= start /\ it.end_byte <= end)
         IN IF its = <<>> THEN <<>> ELSE TextOf(<<its[1]>>)

\* build_search_docs: one SearchDoc per symbol with a non-empty span
RECURSIVE build_search_docs(_, _, _, _)
build_search_docs(path, root, src, symbols) ==
    IF symbols = <<>> THEN <<>>
    ELSE LET symbol == Head(symbols)
             span == slice_utf8(src, symbol.location.start_byte, symbol.location.end_byte)
             rest == build_search_docs(path, root, src, Tail(symbols))
         IN IF span = <<>> THEN rest
            ELSE << [symbol       |-> symbol.scoped_name,
                     file         |-> relative_path(root, path),
                     start_byte   |-> symbol.location.start_byte,
                     end_byte     |-> symbol.location.end_byte,
                     indexed_text |-> span] >> \o rest

\* IncrementalIndexer::parse_file once the read has returned the contents
parse_file(path, root, src) ==
    IF parser_for_file(path) = None
    THEN [symbols |-> <<>>, calls |-> <<>>, imports |-> <<>>, docs |-> <<>>]
    ELSE LET symbols == extract_symbols(src, path)
         IN [symbols |-> symbols,
             calls   |-> extract_calls(src, path),
             imports |-> extract_imports(src, path),
             docs    |-> build_search_docs(path, root, src, symbols)]

-----------------------------------------------------------------------------
(* The topology graph (petgraph StableGraph, as OciState holds it) *)

\* StableGraph::new: the nodes by index, the edges in the order they were
\* added, and the vacated indices, the last vacated first
StableGraph_new == [nodes |-> EmptyMap, edges |-> <<>>, free |-> <<>>]

\* the index add_node hands out: the slot vacated last, else a new one
node_added(graph) ==
    IF graph.free # <<>> THEN Head(graph.free) ELSE Cardinality(DOMAIN graph.nodes)

\* StableGraph::add_node
add_node(graph, weight) ==
    [graph EXCEPT !.nodes = Put(@, node_added(graph), weight),
                  !.free = IF @ # <<>> THEN Tail(@) ELSE @]

\* StableGraph::add_edge: parallel edges and self-loops are kept
add_edge(graph, a, b, weight) ==
    [graph EXCEPT !.edges = Append(@, [source |-> a, target |-> b, weight |-> weight])]

\* StableGraph::remove_node: the node goes with the edges at it
remove_node(graph, a) ==
    IF a \notin DOMAIN graph.nodes THEN graph
    ELSE [graph EXCEPT !.nodes = Remove(@, a),
                       !.edges = Retain(@, LAMBDA e : e.source # a /\ e.target # a),
                       !.free = <<a>> \o @]

-----------------------------------------------------------------------------
(* OciState *)

OciState_new ==
    [symbols         |-> EmptyMap,
     name_to_scoped  |-> EmptyMap,
     file_symbols    |-> EmptyMap,
     call_edges      |-> <<>>,
     imports         |-> EmptyMap,
     semantic_index  |-> None,
     file_contents   |-> EmptyMap,
     file_ids        |-> EmptyMap,
     file_id_counter |-> 0,
     path_to_node    |-> EmptyMap,
     topology        |-> StableGraph_new,
     topology_metrics |-> EmptyMap,
     bm25_index      |-> None,
     last_indexed    |-> FALSE,
     file_count      |-> 0,
     symbol_count    |-> 0]

\* get_or_create_file_id that does not advance the counter
get_or_create_file_id_same_counter(st, path) ==
    IF path \in DOMAIN st.file_ids THEN st
    ELSE [st EXCEPT !.file_ids = Put(@, path, st.file_id_counter),
                    !.file_count = @ + 1]

\* OciState::get_or_create_file_id, called by one thread at a time
get_or_create_file_id(st, path) ==
    IF path \in DOMAIN st.file_ids THEN st
    ELSE [st EXCEPT !.file_ids = Put(@, path, st.file_id_counter),
                    !.file_id_counter = @ + 1,
                    !.file_count = @ + 1]

\* add_symbol that replaces the list under the simple name instead of
\* appending to it
add_symbol_replacing(st, symbol) ==
    LET scoped == symbol.scoped_name
        simple == symbol.name
    IN [st EXCEPT !.symbols = Put(@, scoped, symbol),
                  !.name_to_scoped = Put(@, simple, <<scoped>>),
                  !.symbol_count = @ + 1]

\* OciState::add_symbol
add_symbol(st, symbol) ==
    LET scoped == symbol.scoped_name
        simple == symbol.name
        old    == IF simple \in DOMAIN st.name_to_scoped
                  THEN st.name_to_scoped[simple] ELSE <<>>
    IN [st EXCEPT !.symbols = Put(@, scoped, symbol),
                  !.name_to_scoped = Put(@, simple, Append(old, scoped)),
                  !.symbol_count = @ + 1]

add_call_edge(st, edge) == [st EXCEPT !.call_edges = Append(@, edge)]

\* the loop of clear_file over the scoped names file_symbols held for the file
RECURSIVE clear_symbols(_, _)
clear_symbols(st, names) ==
    IF names = <<>> THEN st
    ELSE LET scoped_name == Head(names)
         IN IF scoped_name \in DOMAIN st.symbols
            THEN LET sym == st.symbols[scoped_name]
                     st1 == [st EXCEPT
                               !.symbols = Remove(@, scoped_name),
                               !.name_to_scoped =
                                   IF sym.name \in DOMAIN @
                                   THEN [@ EXCEPT ![sym.name] =
                                            Retain(@, LAMBDA s : s # scoped_name)]
                                   ELSE @,
                               !.symbol_count = @ - 1]
                 IN clear_symbols(st1, Tail(names))
            ELSE clear_symbols(st, Tail(names))

clear_file(st, path) ==
    IF path \notin DOMAIN st.file_ids THEN st
    ELSE LET file_id == st.file_ids[path]
             st1 == IF file_id \in DOMAIN st.file_symbols
                    THEN clear_symbols([st EXCEPT !.file_symbols = Remove(@, file_id)],
                                       st.file_symbols[file_id])
                    ELSE st
         IN [st1 EXCEPT !.imports = Remove(@, file_id),
                        !.file_contents = Remove(@, path),
                        !.call_edges = Retain(@, LAMBDA e : e.location.file # path)]

get_symbol(st, scoped_name) == Get(st.symbols, scoped_name)

find_by_name(st, name) ==
    IF name \notin DOMAIN st.name_to_scoped THEN <<>>
    ELSE LET found == Retain(st.name_to_scoped[name], LAMBDA s : s \in DOMAIN st.symbols)
         IN [i \in 1..Len(found) |-> st.symbols[found[i]]]

stats(st) ==
    [file_count          |-> st.file_count,
     symbol_count        |-> st.symbol_count,
     call_edge_count     |-> Len(st.call_edges),
     topology_node_count |-> Cardinality(DOMAIN st.topology.nodes),
     has_semantic_index  |-> st.semantic_index # None,
     has_bm25_index      |-> st.bm25_index # None]

\* OciState::reset: every field it clears; semantic_index is not among them
reset(st) == [OciState_new EXCEPT !.semantic_index = st.semantic_index]

\* OciState::find_callers
find_callers(st, callee_name) ==
    Retain(st.call_edges, LAMBDA e : e.callee_name = callee_name)

\* OciState::find_callees
find_callees(st, caller_scoped) ==
    Retain(st.call_edges, LAMBDA e : e.caller = caller_scoped)

-----------------------------------------------------------------------------
(* IncrementalIndexer: the per-file operations *)

apply_parsed(st, path, parsed) ==
    IF parsed.symbols = <<>> /\ parsed.calls = <<>> /\ parsed.imports = <<>> THEN st
    ELSE LET st1 == get_or_create_file_id(st, path)
             file_id == st1.file_ids[path]
             AddAll[i \in 0..Len(parsed.symbols)] ==
                 IF i = 0 THEN st1 ELSE add_symbol(AddAll[i - 1], parsed.symbols[i])
             st2 == AddAll[Len(parsed.symbols)]
             file_symbol_names == [i \in 1..Len(parsed.symbols) |-> parsed.symbols[i].scoped_name]
             st3 == IF file_symbol_names # <<>>
                    THEN [st2 EXCEPT !.file_symbols = Put(@, file_id, file_symbol_names)]
                    ELSE st2
             st4 == [st3 EXCEPT !.call_edges = @ \o parsed.calls]
         IN IF parsed.imports # <<>>
            THEN [st4 EXCEPT !.imports = Put(@, file_id, parsed.imports)]
            ELSE st4

\* index_file when the read of path returns src
index_file(st, path, root, src) == apply_parsed(st, path, parse_file(path, root, src))

\* update_file when the read of path returns src
update_file(st, path, root, src) == index_file(clear_file(st, path), path, root, src)

\* TopologyBuilder::remove_file
topology_remove_file(st, path) ==
    IF path \notin DOMAIN st.path_to_node THEN st
    ELSE LET node_idx == st.path_to_node[path]
         IN clear_file([st EXCEPT !.path_to_node = Remove(@, path),
                                  !.topology_metrics = Remove(@, node_idx),
                                  !.topology = remove_node(@, node_idx)],
                       path)

\* remove_file without its call of clear_file
remove_file_topology_only(st, path) == topology_remove_file(st, path)

\* IncrementalIndexer::remove_file
remove_file(st, path) == topology_remove_file(clear_file(st, path), path)

-----------------------------------------------------------------------------
(* BM25 index built from the search documents (src/src/search/bm25.rs,     *)
(* src/src/query.rs)                                                       *)

PathField == 1
IdentField == 2
CodeField == 5

ZeroByField == [f \in 1..5 |-> 0]

Bm25Index_new == [inv |-> EmptyMap, docs |-> <<>>, df |-> EmptyMap]

\* str::to_ascii_lowercase of a token
lower_token(token) == IF token = "Foo" THEN "foo" ELSE token

\* the closure `add` with a new posting for every token
add_token_always_pushing(acc, doc_id, field, token) ==
    IF token = "" THEN acc
    ELSE LET term == lower_token(token)
             postings == IF term \in DOMAIN acc.inv THEN acc.inv[term] ELSE <<>>
         IN [inv |-> Put(acc.inv, term,
                         Append(postings, [doc_id |-> doc_id,
                                           tf_by_field |-> [ZeroByField EXCEPT ![field] = 1]])),
             lens |-> [acc.lens EXCEPT ![field] = @ + 1]]

\* the closure `add` of add_document: acc = [inv, lens]; an empty token is
\* passed over, the term is the token in lower case
add_token(acc, doc_id, field, token) ==
    IF token = "" THEN acc
    ELSE LET term == lower_token(token)
             postings == IF term \in DOMAIN acc.inv THEN acc.inv[term] ELSE <<>>
             n == Len(postings)
             updated == IF n > 0 /\ postings[n].doc_id = doc_id
                        THEN [postings EXCEPT ![n].tf_by_field[field] = @ + 1]
                        ELSE Append(postings,
                                    [doc_id |-> doc_id,
                                     tf_by_field |-> [ZeroByField EXCEPT ![field] = 1]])
         IN [inv |-> Put(acc.inv, term, updated),
             lens |-> [acc.lens EXCEPT ![field] = @ + 1]]

RECURSIVE add_tokens(_, _, _, _)
add_tokens(acc, doc_id, field, tokens) ==
    IF tokens = <<>> THEN acc
    ELSE add_tokens(add_token(acc, doc_id, field, Head(tokens)), doc_id, field, Tail(tokens))

\* path_tokens: the stem of each path component
path_tokens(file) == << FileStem(file) >>

\* the words a text splits into; the texts of the model are sequences of
\* lower-case words that split_identifier leaves whole
Words(text) == text

\* char::is_ascii_lowercase, is_ascii_uppercase, is_ascii_alphanumeric over
\* the characters of the model
LowerCase == {"a", "d", "e", "h", "l", "o", "p", "r", "s", "t", "v", "w", "x"}
UpperCase == {"B", "H", "P", "S", "T", "W", "X"}
Digits == {"2"}
is_word_char(c) == c \in LowerCase \cup UpperCase \cup Digits \cup {"_"}

\* str::to_ascii_lowercase of a text, character by character
to_ascii_lowercase(text) ==
    [i \in DOMAIN text |->
        CASE text[i] = "B" -> "b" [] text[i] = "H" -> "h" [] text[i] = "P" -> "p"
          [] text[i] = "S" -> "s" [] text[i] = "T" -> "t" [] text[i] = "W" -> "w"
          [] text[i] = "X" -> "x" [] OTHER -> text[i]]

\* the loop of split_identifier over i in 1..bytes.len(), here 2..Len(s):
\* acc = [tokens, start]
split_step(s, acc, i) ==
    LET prev == s[i - 1]
        curr == s[i]
        boundary == curr = "_" \/ (prev \in LowerCase /\ curr \in UpperCase)
    IN IF ~boundary THEN acc
       ELSE [tokens |-> IF acc.start < i /\ s[acc.start] # "_"
                        THEN Append(acc.tokens, SubSeq(s, acc.start, i - 1))
                        ELSE acc.tokens,
             start  |-> IF curr = "_" THEN i + 1 ELSE i]

\* split_identifier: the sub-tokens, then the identifier when there are several
split_identifier(s) ==
    IF s = <<>> THEN <<>>
    ELSE LET Loop[i \in 1..Len(s)] ==
                 IF i = 1 THEN [tokens |-> <<>>, start |-> 1]
                 ELSE split_step(s, Loop[i - 1], i)
             acc == Loop[Len(s)]
             tokens == IF acc.start <= Len(s) /\ s[acc.start] # "_"
                       THEN Append(acc.tokens, SubSeq(s, acc.start, Len(s)))
                       ELSE acc.tokens
         IN IF Len(tokens) > 1 THEN Append(tokens, s) ELSE tokens

\* text.split(|c| !c.is_ascii_alphanumeric() && c != '_'): the pieces between
\* the separators, the empty ones included
RECURSIVE split_words(_, _)
split_words(text, piece) ==
    IF text = <<>> THEN <<piece>>
    ELSE IF is_word_char(Head(text)) THEN split_words(Tail(text), Append(piece, Head(text)))
    ELSE <<piece>> \o split_words(Tail(text), <<>>)

\* tokenize of a text given character by character
tokenize_text(text) ==
    LET pieces == Retain(split_words(text, <<>>), LAMBDA piece : piece # <<>>)
        Flat[i \in 0..Len(pieces)] ==
            IF i = 0 THEN <<>> ELSE Flat[i - 1] \o split_identifier(pieces[i])
    IN Flat[Len(pieces)]

add_document(index, path_toks, ident_toks, code_text) ==
    LET doc_id == Len(index.docs)
        a0 == [inv |-> index.inv, lens |-> ZeroByField]
        a1 == add_tokens(a0, doc_id, PathField, path_toks)
        a2 == add_tokens(a1, doc_id, IdentField, ident_toks)
        a3 == add_tokens(a2, doc_id, CodeField, Words(code_text))
    IN [index EXCEPT !.inv = a3.inv,
                     !.docs = Append(@, [len_by_field |-> a3.lens, text |-> code_text])]

finalize(index) ==
    [index EXCEPT !.df = [t \in DOMAIN index.inv |-> Len(index.inv[t])]]

rebuild_bm25(docs) ==
    LET Built[i \in 0..Len(docs)] ==
            IF i = 0 THEN Bm25Index_new
            ELSE add_document(Built[i - 1], path_tokens(docs[i].file),
                              Words(docs[i].symbol), docs[i].indexed_text)
    IN finalize(Built[Len(docs)])

\* prune_docs_for_files that keeps every document
prune_docs_for_files_kept(docs, files) == docs

\* query::prune_docs_for_files
prune_docs_for_files(docs, files) == Retain(docs, LAMBDA doc : doc.file \notin files)

-----------------------------------------------------------------------------
(* The cache directory (src/src/cache.rs, src/src/query.rs)                *)

\* serde_json::to_vec_pretty / bincode::serialize: the bytes of a cache file
Encode(format, value) == [format |-> format, value |-> <<value>>]

\* bytes no decoder accepts
Garbage == [format |-> "garbage", value |-> <<>>]

\* serde_json::from_slice / bincode::deserialize
Decodes(format, bytes) == bytes.format = format
Decode(bytes) == bytes.value[1]

\* load_manifest, load_search_state: Ok(None), Ok(Some(v)) or Err
load(format, file) ==
    IF file = None THEN [err |-> FALSE, value |-> None]
    ELSE IF Decodes(format, file[1]) THEN [err |-> FALSE, value |-> Some(Decode(file[1]))]
    ELSE [err |-> TRUE, value |-> None]

load_manifest(mj) == load("json", mj)

load_search_state(sb) == load("bincode_state", sb)

load_bm25(bb) == load("bincode_bm25", bb)

\* env!("CARGO_PKG_VERSION") of the running binary; an older release is ToolVersion - 1
ToolVersion == 2

\* root.canonicalize()
CanonicalRoot == Root

IndexManifest_new(version) ==
    [tool_version |-> version, root |-> Some(CanonicalRoot), files |-> EmptyMap]

\* load_or_init_manifest that keeps the cache directory on a mismatch
load_or_init_manifest_kept(mj, force, version) ==
    LET loaded == IF force THEN [err |-> FALSE, value |-> None] ELSE load_manifest(mj)
    IN IF loaded.err
       THEN [err |-> TRUE, manifest |-> IndexManifest_new(version),
             reset_state |-> FALSE, purged |-> FALSE]
       ELSE IF /\ loaded.value # None
               /\ loaded.value[1].tool_version = version
               /\ loaded.value[1].root = Some(CanonicalRoot)
       THEN [err |-> FALSE, manifest |-> loaded.value[1],
             reset_state |-> FALSE, purged |-> FALSE]
       ELSE [err |-> FALSE, manifest |-> IndexManifest_new(version),
             reset_state |-> TRUE, purged |-> force \/ loaded.value = None]

\* load_or_init_manifest on the manifest file mj: the manifest, whether the
\* state is to be reset, and whether clear_cache ran
load_or_init_manifest(mj, force, version) ==
    LET loaded == IF force THEN [err |-> FALSE, value |-> None] ELSE load_manifest(mj)
    IN IF loaded.err
       THEN [err |-> TRUE, manifest |-> IndexManifest_new(version),
             reset_state |-> FALSE, purged |-> FALSE]
       ELSE IF /\ loaded.value # None
               /\ loaded.value[1].tool_version = version
               /\ loaded.value[1].root = Some(CanonicalRoot)
       THEN [err |-> FALSE, manifest |-> loaded.value[1],
             reset_state |-> FALSE, purged |-> FALSE]
       ELSE [err |-> FALSE, manifest |-> IndexManifest_new(version),
             reset_state |-> TRUE, purged |-> TRUE]

\* load_or_init_docs on the state file sb
load_or_init_docs(sb, force) ==
    IF force THEN [err |-> FALSE, docs |-> <<>>]
    ELSE LET loaded == load_search_state(sb)
         IN IF loaded.err THEN [err |-> TRUE, docs |-> <<>>]
            ELSE IF loaded.value = None THEN [err |-> FALSE, docs |-> <<>>]
            ELSE [err |-> FALSE, docs |-> loaded.value[1].docs]

-----------------------------------------------------------------------------
(* The source tree *)

\* FileDiscovery::discover
discover(tree) ==
    {path_join(Root, rel) : rel \in {r \in SourceFiles : tree[r] # None} \cup OtherFiles}

\* fingerprint of a file that metadata() finds
fingerprint(tree, rel) ==
    [mtime_ms |-> tree[rel][1].mtime_ms, size_bytes |-> SizeBytes(tree[rel][1].contents)]

\* the classification with the comparison of the fingerprints inverted
is_unchanged_inverted(manifest, rel, fp) ==
    rel \in DOMAIN manifest.files /\ manifest.files[rel] # fp

\* the arm `Some(prev) if *prev == fingerprint` of the classification
is_unchanged(manifest, rel, fp) ==
    rel \in DOMAIN manifest.files /\ manifest.files[rel] = fp

\* the orders in which a HashSet is iterated
Orders(S) == {seq \in [1..Cardinality(S) -> S] : \A i, j \in DOMAIN seq : i # j => seq[i] # seq[j]}

-----------------------------------------------------------------------------
(* IncrementalIndexer::index, step by step *)

ZeroReport ==
    [total_files |-> 0, parsed_files |-> 0, skipped_files |-> 0,
     removed_files |-> 0, docs_indexed |-> 0]

\* the locals of an index call, and what the call found when it started
NoRun ==
    [force           |-> FALSE,
     manifest        |-> IndexManifest_new(0),
     docs            |-> <<>>,
     changed_files   |-> {},
     report          |-> ZeroReport,
     bm25            |-> Bm25Index_new,
     failed          |-> {},      \* files whose update_file returned Err
     start_files     |-> {},      \* keys of manifest.json when the call started
     start_docs      |-> <<>>,    \* documents of state.bin when the call started
     prev_stats      |-> None,    \* hist.stats when the call started
     prev_seen       |-> None,    \* hist.seen when the call started
     after_interrupt |-> FALSE,   \* hist.interrupted when the call started
     purged          |-> FALSE,   \* clear_cache ran in this call
     start_stats     |-> None]    \* stats() when the call started

NoResult == [kind |-> "none", cause |-> ""]

NoHist == [seen |-> None, stats |-> None, interrupted |-> FALSE, read_failed |-> FALSE,
           events |-> 0]

\* the index call returns Err(cause) before it has written anything
ReturnErr(cause, st, mj, sb, bb) ==
    /\ state' = st
    /\ manifest_json' = mj
    /\ state_bin' = sb
    /\ bm25_bin' = bb
    /\ pc' = "idle"
    /\ run' = NoRun
    /\ result' = [kind |-> "err", cause |-> cause]
    /\ hist' = [hist EXCEPT !.seen = None, !.stats = None,
                            !.events = IF cause = "fingerprint" THEN @ + 1 ELSE @]
    /\ UNCHANGED <<callerVars, fs>>

RECURSIVE remove_files(_, _)
remove_files(st, order) ==
    IF order = <<>> THEN st
    ELSE remove_files(remove_file(st, path_join(Root, Head(order))), Tail(order))

\* the keys and documents of the cache as a reader finds them
StoredFiles(mj) ==
    IF mj # None /\ Decodes("json", mj[1]) THEN DOMAIN Decode(mj[1]).files ELSE {}

StoredDocs(sb) ==
    IF sb # None /\ Decodes("bincode_state", sb[1]) THEN Decode(sb[1]).docs ELSE <<>>

\* index, from its entry to the end of the remove_file loop
IndexStart(force, stat_fails) ==
    /\ pc = "idle"
    /\ LET mj0 == IF force THEN None ELSE manifest_json
           sb0 == IF force THEN None ELSE state_bin
           bb0 == IF force THEN None ELSE bm25_bin
           st0 == IF force THEN reset(state) ELSE state
           files == {path \in discover(fs) : parser_for_file(path) # None}
           lm == load_or_init_manifest(mj0, force, ToolVersion)
           mj1 == IF lm.purged THEN None ELSE mj0
           sb1 == IF lm.purged THEN None ELSE sb0
           bb1 == IF lm.purged THEN None ELSE bb0
           st1 == IF lm.reset_state /\ ~force THEN reset(st0) ELSE st0
           ld == load_or_init_docs(sb1, force)
           seen == {relative_path(Root, path) : path \in files}
           changed == {rel \in seen : ~is_unchanged(lm.manifest, rel, fingerprint(fs, rel))}
           files1 == [rel \in (DOMAIN lm.manifest.files) \cup changed |->
                        IF rel \in changed THEN fingerprint(fs, rel)
                        ELSE lm.manifest.files[rel]]
           removed == {existing \in DOMAIN files1 : existing \notin seen}
           files2 == [rel \in (DOMAIN files1) \ removed |-> files1[rel]]
           drop_docs_for == changed \cup removed
           docs1 == IF drop_docs_for # {} THEN prune_docs_for_files(ld.docs, drop_docs_for)
                    ELSE ld.docs
       IN IF lm.err THEN ReturnErr("load_manifest", st0, mj0, sb0, bb0)
          ELSE IF ld.err THEN ReturnErr("load_search_state", st1, mj1, sb1, bb1)
          ELSE IF stat_fails
          THEN /\ files # {}
               /\ hist.events < MaxEvents
               /\ ReturnErr("fingerprint", st1, mj1, sb1, bb1)
          ELSE \E order \in Orders(removed) :
                 /\ state' = remove_files(st1, order)
                 /\ manifest_json' = mj1
                 /\ state_bin' = sb1
                 /\ bm25_bin' = bb1
                 /\ pc' = "update"
                 /\ run' = [NoRun EXCEPT
                              !.force = force,
                              !.manifest = [lm.manifest EXCEPT !.files = files2],
                              !.docs = docs1,
                              !.changed_files = changed,
                              !.report = [ZeroReport EXCEPT
                                            !.total_files = Cardinality(files),
                                            !.skipped_files = Cardinality(seen \ changed),
                                            !.removed_files = Cardinality(removed)],
                              !.start_files = StoredFiles(manifest_json),
                              !.start_docs = StoredDocs(state_bin),
                              !.prev_stats = hist.stats,
                              !.prev_seen = hist.seen,
                              !.after_interrupt = hist.interrupted,
                              !.purged = lm.purged,
                              !.start_stats = Some(stats(state))]
                 /\ UNCHANGED <<callerVars, fs, result, hist>>

\* one iteration of the loop over changed_files: update_file and its match
UpdateChanged(rel, read_ok) ==
    /\ pc = "update"
    /\ rel \in run.changed_files
    /\ LET path == path_join(Root, rel)
           src == fs[rel][1].contents
           file_docs == parse_file(path, Root, src).docs
       IN IF read_ok
          THEN /\ state' = update_file(state, path, Root, src)
               /\ run' = [run EXCEPT !.changed_files = @ \ {rel},
                                     !.docs = @ \o file_docs,
                                     !.report.parsed_files = @ + 1,
                                     !.report.docs_indexed = @ + Len(file_docs)]
               /\ hist' = hist
          ELSE /\ hist.events < MaxEvents
               /\ state' = clear_file(state, path)
               /\ run' = [run EXCEPT !.changed_files = @ \ {rel},
                                     !.failed = @ \cup {rel}]
               /\ hist' = [hist EXCEPT !.read_failed = TRUE, !.events = @ + 1]
    /\ UNCHANGED <<callerVars, fs, manifest_json, state_bin, bm25_bin, pc, result>>

\* rebuild_bm25 and the store into state.bm25_index
Rebuilt(st, docs) == [st EXCEPT !.bm25_index = Some(rebuild_bm25(docs))]

\* from the end of the loop over changed_files to the end of save_search_state
SaveSearchState ==
    /\ pc = "update"
    /\ run.changed_files = {}
    /\ state' = Rebuilt(state, run.docs)
    /\ run' = [run EXCEPT !.bm25 = rebuild_bm25(run.docs)]
    /\ state_bin' = Some(Encode("bincode_state", [docs |-> run.docs]))
    /\ pc' = "save_bm25"
    /\ UNCHANGED <<callerVars, fs, manifest_json, bm25_bin, result, hist>>

SaveBm25 ==
    /\ pc = "save_bm25"
    /\ bm25_bin' = Some(Encode("bincode_bm25", run.bm25))
    /\ pc' = "save_manifest"
    /\ UNCHANGED <<state, callerVars, fs, manifest_json, state_bin, run, result, hist>>

SaveManifest ==
    /\ pc = "save_manifest"
    /\ manifest_json' = Some(Encode("json", run.manifest))
    /\ pc' = "return"
    /\ UNCHANGED <<state, callerVars, fs, state_bin, bm25_bin, run, result, hist>>

\* the store into last_indexed and Ok(report)
ReturnOk ==
    /\ pc = "return"
    /\ state' = [state EXCEPT !.last_indexed = TRUE]
    /\ pc' = "idle"
    /\ result' = [kind |-> "ok", cause |-> ""]
    /\ hist' = [hist EXCEPT !.seen = Some(fs), !.stats = Some(stats(state')),
                            !.interrupted = FALSE]
    /\ run' = NoRun
    /\ UNCHANGED <<callerVars, fs, manifest_json, state_bin, bm25_bin>>

Interrupted(kind, st) ==
    /\ hist.events < MaxEvents
    /\ state' = st
    /\ pc' = "idle"
    /\ run' = NoRun
    /\ result' = [kind |-> kind, cause |-> ""]
    /\ hist' = [hist EXCEPT !.seen = None, !.stats = None, !.interrupted = TRUE,
                            !.events = @ + 1]
    /\ UNCHANGED <<callerVars, fs, manifest_json, state_bin, bm25_bin>>

\* the task is dropped while update_file awaits the read of rel
CancelRead(rel) ==
    /\ pc = "update"
    /\ rel \in run.changed_files
    /\ Interrupted("cancelled", clear_file(state, path_join(Root, rel)))

\* a write of the cache fails and `?` returns the error
WriteFails ==
    \/ /\ pc = "update"
       /\ run.changed_files = {}
       /\ Interrupted("err", Rebuilt(state, run.docs))
    \/ /\ pc \in {"save_bm25", "save_manifest"}
       /\ Interrupted("err", state)

\* the process stops; the next call runs in a new process
Crash ==
    /\ pc # "idle"
    /\ Interrupted("crashed", OciState_new)

-----------------------------------------------------------------------------
(* The environment of index: the source tree, the cache files, the binary *)

FileChanged ==
    /\ UNCHANGED <<callerVars, manifest_json, state_bin, bm25_bin, pc, run, result>>
    /\ UNCHANGED state
    /\ hist.events < MaxEvents
    /\ hist' = [hist EXCEPT !.stats = None, !.interrupted = FALSE, !.events = @ + 1]

\* a file is created or rewritten; a rewrite advances its modification time
WriteFile(rel, src) ==
    /\ pc = "idle"
    /\ LET mtime == IF fs[rel] = None THEN 1 ELSE fs[rel][1].mtime_ms + 1
       IN /\ mtime <= MaxMtime
          /\ fs' = [fs EXCEPT ![rel] = Some([mtime_ms |-> mtime, contents |-> src])]
    /\ FileChanged

DeleteFile(rel) ==
    /\ pc = "idle"
    /\ fs[rel] # None
    /\ fs' = [fs EXCEPT ![rel] = None]
    /\ FileChanged

CacheChanged ==
    /\ UNCHANGED <<state, callerVars, fs, pc, run, result>>
    /\ hist.events < MaxEvents
    /\ hist' = [hist EXCEPT !.seen = None, !.stats = None, !.events = @ + 1]

\* manifest.json is truncated or overwritten
CorruptManifest ==
    /\ pc = "idle"
    /\ manifest_json # None
    /\ manifest_json # Some(Garbage)
    /\ manifest_json' = Some(Garbage)
    /\ UNCHANGED <<state_bin, bm25_bin>>
    /\ CacheChanged

\* state.bin is truncated or overwritten
CorruptState ==
    /\ pc = "idle"
    /\ state_bin # None
    /\ state_bin # Some(Garbage)
    /\ state_bin' = Some(Garbage)
    /\ UNCHANGED <<manifest_json, bm25_bin>>
    /\ CacheChanged

\* a newer release of the tool is installed and started: the cache on disk
\* is now the cache of an older release
Upgrade ==
    /\ pc = "idle"
    /\ hist.events < MaxEvents
    /\ manifest_json # None
    /\ Decodes("json", manifest_json[1])
    /\ Decode(manifest_json[1]).tool_version = ToolVersion
    /\ manifest_json' = Some(Encode("json", [Decode(manifest_json[1]) EXCEPT
                                                !.tool_version = ToolVersion - 1]))
    /\ state' = OciState_new
    /\ hist' = [hist EXCEPT !.seen = None, !.stats = None, !.events = @ + 1]
    /\ UNCHANGED <<callerVars, fs, state_bin, bm25_bin, pc, run, result>>

\* the repository is now reached under another canonical path (the directory
\* was renamed, or a link to it was replaced) while the process keeps running:
\* the root the stored manifest records is no longer root.canonicalize()
Moved ==
    /\ pc = "idle"
    /\ hist.events < MaxEvents
    /\ manifest_json # None
    /\ Decodes("json", manifest_json[1])
    /\ Decode(manifest_json[1]).root = Some(CanonicalRoot)
    /\ manifest_json' = Some(Encode("json", [Decode(manifest_json[1]) EXCEPT
                                                !.root = Some("/elsewhere")]))
    /\ hist' = [hist EXCEPT !.seen = None, !.stats = None, !.events = @ + 1]
    /\ UNCHANGED <<state, callerVars, fs, state_bin, bm25_bin, pc, run, result>>

\* the process is restarted between two index calls
Restart ==
    /\ pc = "idle"
    /\ state # OciState_new
    /\ hist.events < MaxEvents
    /\ state' = OciState_new
    /\ hist' = [hist EXCEPT !.stats = None, !.events = @ + 1]
    /\ UNCHANGED <<callerVars, fs, manifest_json, state_bin, bm25_bin,
                   pc, run, result>>

\* the threads of the process that call into the State
Threads == {1, 2}

\* a thread outside get_or_create_file_id
Idle == [pc |-> "idle", path |-> <<>>, id |-> None, ret |-> None]

\* the <<path, FileId>> pairs returned since the process started (ever) and
\* since the last reset (now)
NoneIssued == [ever |-> {}, now |-> {}]

InitIndex ==
    /\ state = OciState_new
    /\ last_op = [op |-> "new", path |-> <<>>]
    /\ issued = NoneIssued
    /\ threads = [t \in Threads |-> Idle]
    /\ fs = [rel \in SourceFiles |-> None]
    /\ manifest_json = None
    /\ state_bin = None
    /\ bm25_bin = None
    /\ pc = "idle"
    /\ run = NoRun
    /\ result = NoResult
    /\ hist = NoHist

NextIndex ==
    \/ \E force \in BOOLEAN, stat_fails \in BOOLEAN : IndexStart(force, stat_fails)
    \/ \E rel \in SourceFiles, read_ok \in BOOLEAN : UpdateChanged(rel, read_ok)
    \/ SaveSearchState
    \/ SaveBm25
    \/ SaveManifest
    \/ ReturnOk
    \/ \E rel \in SourceFiles : CancelRead(rel)
    \/ WriteFails
    \/ Crash
    \/ \E rel \in SourceFiles, src \in TreeSources : WriteFile(rel, src)
    \/ \E rel \in SourceFiles : DeleteFile(rel)
    \/ CorruptManifest
    \/ CorruptState
    \/ Upgrade
    \/ Moved
    \/ Restart

SpecIndex == InitIndex /\ [][NextIndex]_vars

-----------------------------------------------------------------------------
(* Queries over the persisted search index (src/src/query.rs,              *)
(* src/src/search/bm25.rs). A query string, a filter value and a file name *)
(* are sequences of pieces: "-", "path:", "ext:", "." and words.           *)

\* the pieces of the relative path of a document
Pieces(file) == <<FileStem(file), ".", Extension(file)>>

\* str::to_lowercase of a piece
to_lowercase(piece) == IF piece = "RS" THEN "rs" ELSE piece

\* str::contains: pat occurs in text as a run of consecutive pieces
contains(text, pat) ==
    \E i \in 0..(Len(text) - Len(pat)) : SubSeq(text, i + 1, i + Len(pat)) = pat

\* Path::extension, lower-cased: the pieces after the last "."
extension_of(file) ==
    LET ps == Pieces(file)
        dots == {i \in DOMAIN ps : ps[i] = "."}
    IN IF dots = {} THEN <<>>
       ELSE LET last == CHOOSE i \in dots : \A j \in dots : j <= i
            IN [k \in 1..(Len(ps) - last) |-> to_lowercase(ps[last + k])]

\* trim_start_matches('.')
RECURSIVE trim_start_dots(_)
trim_start_dots(text) ==
    IF text # <<>> /\ Head(text) = "." THEN trim_start_dots(Tail(text)) ELSE text

QueryFilters_default ==
    [include_paths |-> <<>>, exclude_paths |-> <<>>,
     include_exts |-> <<>>, exclude_exts |-> <<>>]

\* the closure handle_token of parse_query_filters: acc = [terms, filters]
handle_token(acc, token) ==
    IF token = <<>> THEN acc
    ELSE LET negated == Head(token) = "-"
             rest == IF negated THEN Tail(token) ELSE token
         IN IF rest # <<>> /\ Head(rest) = "path:"
            THEN IF negated
                 THEN [acc EXCEPT !.filters.exclude_paths = Append(@, Tail(rest))]
                 ELSE [acc EXCEPT !.filters.include_paths = Append(@, Tail(rest))]
            ELSE IF rest # <<>> /\ Head(rest) = "ext:"
            THEN LET ext == trim_start_dots(Tail(rest))
                     lower == [i \in DOMAIN ext |-> to_lowercase(ext[i])]
                 IN IF negated
                    THEN [acc EXCEPT !.filters.exclude_exts = Append(@, lower)]
                    ELSE [acc EXCEPT !.filters.include_exts = Append(@, lower)]
            ELSE [acc EXCEPT !.terms = Append(@, token)]

\* parse_query_filters: the tokens of the query, then the extra filters
parse_query_filters(query, extra_filters) ==
    LET tokens == query \o extra_filters
        Handled[i \in 0..Len(tokens)] ==
            IF i = 0 THEN [terms |-> <<>>, filters |-> QueryFilters_default]
            ELSE handle_token(Handled[i - 1], tokens[i])
    IN Handled[Len(tokens)]

matches_filters(doc, filters) ==
    LET file == Pieces(doc.file)
        ext  == extension_of(doc.file)
    IN /\ filters.include_paths # <<>> =>
              \E i \in DOMAIN filters.include_paths : contains(file, filters.include_paths[i])
       /\ \A i \in DOMAIN filters.exclude_paths : ~contains(file, filters.exclude_paths[i])
       /\ filters.include_exts # <<>> => ext \in Range(filters.include_exts)
       /\ ~(filters.exclude_exts # <<>> /\ ext \in Range(filters.exclude_exts))

\* bm25::tokenize of the terms of a query: the words, lower-cased
RECURSIVE tokenize(_)
tokenize(terms) ==
    IF terms = <<>> THEN <<>>
    ELSE LET words == Retain(Head(terms), LAMBDA piece : piece \notin {"-", ".", "path:", "ext:"})
         IN [i \in DOMAIN words |-> to_lowercase(words[i])] \o tokenize(Tail(terms))

\* FieldWeights::default(), in tenths
FieldWeights_default == <<20, 18, 14, 11, 10>>

\* the contribution of one posting to the score of its document. The f32
\* value idf * tf_weighted * (k1 + 1) / denom is represented by ten times
\* tf_weighted: idf and the length normalisation, finite and positive for
\* every index add_document builds, are left out, and equal scores remain.
posting_score(posting) ==
    LET Sum[i \in 0..5] ==
            IF i = 0 THEN 0
            ELSE Sum[i - 1] + FieldWeights_default[i] * posting.tf_by_field[i]
    IN Sum[5]

\* the map `scores` of Bm25Index::search after the loop over the terms
scores_of(bm25, terms) ==
    LET hits == {<<t, i>> \in (1..Len(terms)) \X (0..Len(bm25.docs)) :
                    /\ terms[t] \in DOMAIN bm25.inv
                    /\ i \in DOMAIN bm25.inv[terms[t]]}
        RECURSIVE SumOver(_, _)
        SumOver(doc_id, hs) ==
            IF hs = {} THEN 0
            ELSE LET h == CHOOSE x \in hs : TRUE
                     posting == bm25.inv[terms[h[1]]][h[2]]
                 IN (IF posting.doc_id = doc_id THEN posting_score(posting) ELSE 0)
                        + SumOver(doc_id, hs \ {h})
        scored == {bm25.inv[terms[h[1]]][h[2]].doc_id : h \in hits}
    IN {[doc_id |-> d, score |-> SumOver(d, hits)] : d \in scored}

Min(a, b) == IF a <= b THEN a ELSE b

\* Bm25Index::search: the map is iterated in any order, sorted by score
\* descending with a stable sort and truncated; every list it can return
search(bm25, terms, top_k) ==
    LET scores == scores_of(bm25, terms)
    IN {SubSeq(seq, 1, Min(top_k, Len(seq))) :
          seq \in {o \in Orders(scores) :
                     \A i, j \in DOMAIN o : i < j => o[i].score >= o[j].score}}

\* str::cmp of two relative paths of the tree
file_lt(f, g) == f = "a.rs" /\ g = "b.rs"

\* the comparator of the sort of execute_query says Less
result_lt(a, b) ==
    \/ a.score > b.score
    \/ a.score = b.score /\ file_lt(a.file, b.file)
    \/ a.score = b.score /\ a.file = b.file /\ a.start_byte < b.start_byte

\* slice::sort_by, a stable sort: the results in order, each one placed
\* behind those that are not greater
RECURSIVE insert_sorted(_, _)
insert_sorted(x, sorted) ==
    IF sorted = <<>> THEN <<x>>
    ELSE IF result_lt(x, Head(sorted)) THEN <<x>> \o sorted
    ELSE <<Head(sorted)>> \o insert_sorted(x, Tail(sorted))

sort_results(results) ==
    LET Sorted[i \in 0..Len(results)] ==
            IF i = 0 THEN <<>> ELSE insert_sorted(results[i], Sorted[i - 1])
    IN Sorted[Len(results)]

\* the loop of execute_query over the results of the BM25 search
filter_results(index, results, filters) ==
    LET kept == Retain(results, LAMBDA r : /\ r.doc_id < Len(index.docs)
                                            /\ matches_filters(index.docs[r.doc_id + 1], filters))
    IN [i \in DOMAIN kept |->
          [doc_id     |-> kept[i].doc_id,
           symbol     |-> index.docs[kept[i].doc_id + 1].symbol,
           file       |-> index.docs[kept[i].doc_id + 1].file,
           start_byte |-> index.docs[kept[i].doc_id + 1].start_byte,
           end_byte   |-> index.docs[kept[i].doc_id + 1].end_byte,
           score      |-> kept[i].score]]

\* execute_query that returns the filtered results in the order of the search
execute_query_unsorted(index, query, top_k, filters) ==
    LET search_k == Min(IF top_k * 5 > top_k THEN top_k * 5 ELSE top_k, 1000)
    IN {LET filtered == filter_results(index, results, filters)
        IN [query |-> query, top_k |-> top_k,
            results |-> SubSeq(filtered, 1, Min(top_k, Len(filtered)))] :
          results \in search(index.bm25, tokenize(query), search_k)}

\* execute_query: every response it can return
execute_query(index, query, top_k, filters) ==
    LET search_k == Min(IF top_k * 5 > top_k THEN top_k * 5 ELSE top_k, 1000)
    IN {LET filtered == sort_results(filter_results(index, results, filters))
        IN [query |-> query, top_k |-> top_k,
            results |-> SubSeq(filtered, 1, Min(top_k, Len(filtered)))] :
          results \in search(index.bm25, tokenize(query), search_k)}

\* load_search_index on the two files of the cache: None unless both load
load_search_index(sb, bb) ==
    IF load_search_state(sb).value = None \/ load_bm25(bb).value = None THEN None
    ELSE Some([root |-> Root, docs |-> load_search_state(sb).value[1].docs,
               bm25 |-> load_bm25(bb).value[1]])

-----------------------------------------------------------------------------
(* DeadCodeAnalyzer (src/src/analysis/dead_code.rs) *)

\* str::contains of an attribute text, over the attributes of the model
Contains(attr, word) ==
    \/ attr = "#[test]" /\ word = "test"
    \/ attr = "#[derive(Debug)]" /\ word = "derive"

is_entry_point(st, symbol) ==
    \/ symbol.name = "main" /\ symbol.kind = "Function"
    \/ \E i \in DOMAIN symbol.attributes : Contains(symbol.attributes[i], "test")
    \/ symbol.visibility = "Public"
    \/ symbol.visibility = "Crate"
    \/ symbol.kind = "Impl"
    \/ /\ symbol.kind = "Method"
       /\ symbol.parent # None
       /\ get_symbol(st, symbol.parent[1]) # None
       /\ get_symbol(st, symbol.parent[1])[1].kind = "Impl"

\* the scoped names pushed into entry_points, whatever the order of the map
identify_entry_points(st) ==
    {scoped_name \in DOMAIN st.symbols : is_entry_point(st, st.symbols[scoped_name])}

\* the names one turn of the BFS loop tries to insert for `current`
Successors(st, current) ==
    LET callees == find_callees(st, current)
        called  == UNION {{sym.scoped_name : sym \in Range(find_by_name(st, callees[i].callee_name))} :
                            i \in DOMAIN callees}
        symbol  == get_symbol(st, current)
    IN called \cup (IF symbol # None /\ symbol[1].parent # None
                    THEN {symbol[1].parent[1]} ELSE {})

\* the while loop of compute_reachable: a name enters the queue when it
\* enters `reachable`; the set reached does not depend on the queue order
RECURSIVE traverse(_, _, _)
traverse(st, reachable, queue) ==
    IF queue = {} THEN reachable
    ELSE LET current == CHOOSE x \in queue : TRUE
             fresh   == Successors(st, current) \ reachable
         IN traverse(st, reachable \cup fresh, (queue \ {current}) \cup fresh)

compute_reachable(st, entry_points) == traverse(st, entry_points, entry_points)

find_dead_symbols(st, reachable) ==
    {scoped_name \in DOMAIN st.symbols :
        /\ scoped_name \notin reachable
        /\ st.symbols[scoped_name].kind \notin {"Module", "Field", "Variant"}}

identify_potentially_live(st, reachable) ==
    {scoped_name \in DOMAIN st.symbols :
        /\ scoped_name \notin reachable
        /\ \/ \E i \in DOMAIN st.symbols[scoped_name].attributes :
                \E word \in {"derive", "macro", "no_mangle", "export_name", "link_name", "used"} :
                    Contains(st.symbols[scoped_name].attributes[i], word)
           \/ st.symbols[scoped_name].kind \in {"Const", "Static", "Macro"}}

\* analyze whose reachable set is the entry points alone, no edge followed
analyze_entry_points_only(st) ==
    LET entry_points == identify_entry_points(st)
    IN [dead_symbols     |-> find_dead_symbols(st, entry_points),
        entry_points     |-> entry_points,
        potentially_live |-> identify_potentially_live(st, entry_points)]

\* DeadCodeAnalyzer::analyze
analyze(st) ==
    LET entry_points == identify_entry_points(st)
        reachable    == compute_reachable(st, entry_points)
    IN [dead_symbols     |-> find_dead_symbols(st, reachable),
        entry_points     |-> entry_points,
        potentially_live |-> identify_potentially_live(st, reachable)]

-----------------------------------------------------------------------------
(* SpecState: the operations of OciState and the per-file operations of    *)
(* the indexer, called one after the other in any order                    *)

Names == {"foo", "bar"}

\* the symbols add_symbol is called with
SymbolInputs ==
    {[name |-> n, scoped_name |-> sc \o <<n>>, kind |-> "Function",
      location |-> [file |-> p, start_byte |-> 0, end_byte |-> 2],
      visibility |-> "Private", attributes |-> <<>>, parent |-> None] :
        n \in Names, sc \in {<<"crate">>}, p \in AbsPaths}

\* the edges add_call_edge is called with
EdgeInputs ==
    {[caller |-> <<"crate", "foo">>, callee_name |-> "bar",
      location |-> [file |-> p, start_byte |-> 1, end_byte |-> 2]] : p \in AbsPaths}

\* the guards that keep the vectors and the counter of a state within the bounds
WithinBounds(st) ==
    /\ Len(st.call_edges) <= MaxVec
    /\ \A n \in DOMAIN st.name_to_scoped : Len(st.name_to_scoped[n]) <= MaxVec
    /\ st.symbol_count <= MaxSymbolCount

Called(op, path, st) ==
    /\ WithinBounds(st)
    /\ state' = st
    /\ last_op' = [op |-> op, path |-> path]
    /\ UNCHANGED <<issued, threads, indexVars>>

GetOrCreateFileId(p) == Called("get_or_create_file_id", p, get_or_create_file_id(state, p))

AddSymbol(sym) == Called("add_symbol", sym.location.file, add_symbol(state, sym))

AddCallEdge(e) == Called("add_call_edge", e.location.file, add_call_edge(state, e))

IndexFile(p, src) == Called("index_file", p, index_file(state, p, Root, src))

UpdateFile(p, src) == Called("update_file", p, update_file(state, p, Root, src))

ClearFile(p) == Called("clear_file", p, clear_file(state, p))

RemoveFile(p) == Called("remove_file", p, remove_file(state, p))

Reset == Called("reset", <<>>, reset(state))

\* `state.semantic_index.set(index)`: the semantic index is built on demand
\* and stored once
SetSemanticIndex ==
    /\ state.semantic_index = None
    /\ Called("set_semantic_index", <<>>, [state EXCEPT !.semantic_index = Some("SemanticIndex")])

InitState == InitIndex

NextState ==
    \/ \E p \in AbsPaths : GetOrCreateFileId(p)
    \/ \E sym \in SymbolInputs : AddSymbol(sym)
    \/ \E e \in EdgeInputs : AddCallEdge(e)
    \/ \E p \in AbsPaths, src \in Sources : IndexFile(p, src)
    \/ \E p \in AbsPaths, src \in Sources : UpdateFile(p, src)
    \/ \E p \in AbsPaths : ClearFile(p)
    \/ \E p \in AbsPaths : RemoveFile(p)
    \/ Reset
    \/ SetSemanticIndex

SpecState == InitState /\ [][NextState]_vars

-----------------------------------------------------------------------------
(* SpecNames: add_symbol called with any SymbolDef, also one that reuses a *)
(* scoped name under another simple name, between index_file and           *)
(* clear_file calls                                                        *)

\* a SymbolDef whose scoped name is sc and whose simple name is n
SymbolNamed(sc, n, p) ==
    [name |-> n, scoped_name |-> sc, kind |-> "Function",
     location |-> [file |-> p, start_byte |-> 0, end_byte |-> 2],
     visibility |-> "Private", attributes |-> <<>>, parent |-> None]

NameInputs ==
    {SymbolNamed(<<"crate", last>>, n, path_join(Root, "a.rs")) : last \in Names, n \in Names}

NextNames ==
    \/ \E sym \in NameInputs : AddSymbol(sym)
    \/ \E p \in AbsPaths, src \in TreeSources : IndexFile(p, src)
    \/ \E p \in AbsPaths : ClearFile(p)

SpecNames == InitIndex /\ [][NextNames]_vars

-----------------------------------------------------------------------------
(* SpecDead: the Rust sources of a tree indexed through index_file, each   *)
(* file once, symbols and call edges added directly, and the dead-code     *)
(* analysis run on the State reached                                       *)

\* fn main() { foo() } fn foo() {}
SrcMain == << FnItem("main", <<"foo">>, 0), FnItem("foo", <<>>, 3) >>
\* pub struct S; impl S { fn m() { foo() } }
SrcStruct == << Pub(StructItem("S", 0)), ImplItem("S", << FnItem("m", <<"foo">>, 2) >>, 1) >>

DeadSources == {SrcMain, SrcFoo, SrcBar, SrcStruct}

\* a private method added by a caller of add_symbol
MethodOf(parent, scoped, n) ==
    [name |-> n, scoped_name |-> scoped, kind |-> "Method",
     location |-> [file |-> path_join(Root, "a.rs"), start_byte |-> 0, end_byte |-> 2],
     visibility |-> "Private", attributes |-> <<>>, parent |-> Some(parent)]

\* the symbols add_symbol is called with: a private function h, a second
\* symbol named foo whose parent is crate::h, and a function with the
\* attribute #[test]
DeadInputs ==
    { SymbolNamed(<<"crate", "h">>, "h", path_join(Root, "a.rs")),
      MethodOf(<<"crate", "h">>, <<"crate", "h", "foo">>, "foo"),
      [SymbolNamed(<<"crate", "t">>, "t", path_join(Root, "a.rs")) EXCEPT
          !.attributes = <<"#[test]">>] }

CalledWithin(op, path, st) ==
    /\ st.symbol_count <= MaxAnalyzed
    /\ Len(st.call_edges) <= MaxVec
    /\ state' = st
    /\ last_op' = [op |-> op, path |-> path]
    /\ UNCHANGED <<issued, threads, indexVars>>

\* DeadCodeAnalyzer::analyze(&state): the State is read, the report returned
Analyze ==
    /\ last_op.op # "analyze"
    /\ last_op' = [op |-> "analyze", path |-> <<>>, report |-> analyze(state)]
    /\ UNCHANGED <<state, issued, threads, indexVars>>

\* index_file of a file the State has not seen yet
IndexNewFile(p, src) ==
    /\ p \notin DOMAIN state.file_ids
    /\ CalledWithin("index_file", p, index_file(state, p, Root, src))

NextDead ==
    \/ \E p \in AbsPaths, src \in DeadSources : IndexNewFile(p, src)
    \/ \E sym \in DeadInputs :
           CalledWithin("add_symbol", sym.location.file, add_symbol(state, sym))
    \/ \E e \in EdgeInputs :
           CalledWithin("add_call_edge", e.location.file, add_call_edge(state, e))
    \/ Analyze

SpecDead == InitIndex /\ [][NextDead]_vars

-----------------------------------------------------------------------------
(* SpecQuery: the search documents and the BM25 index are written to the   *)
(* cache, together or one without the other, and queries are executed on   *)
(* the index loaded from it                                                *)

\* the documents a file contributes: none, or those of one of its contents
DocsOfFile(rel) ==
    {<<>>} \cup {parse_file(path_join(Root, rel), Root, src).docs : src \in {SrcFoo, SrcMain}}

\* the document lists of an index run over the tree, in either order of the files
DocLists ==
    {da \o db : da \in DocsOfFile("a.rs"), db \in DocsOfFile("b.rs")}
        \cup {db \o da : da \in DocsOfFile("a.rs"), db \in DocsOfFile("b.rs")}

\* the query strings: the terms `fn`, `foo`, `-bar fn`
QueryStrings == { << <<"fn">> >>, << <<"foo">> >>, << <<"-", "bar">>, <<"fn">> >> }

\* the filter tokens handed over with the query
FilterLists ==
    { <<>>,
      << <<"path:", "a">> >>,
      << <<"-", "path:", "b", ".", "rs">> >>,
      << <<"ext:", ".", "RS">> >>,
      << <<"-", "ext:", "rs">> >>,
      << <<"ext:", "md">>, <<"ext:", "rs">> >>,
      << <<"path:", "b">>, <<"path:", "a">>, <<"-", "ext:", "md">> >> }

\* save_search_state(root, &SearchState { docs })
WriteSearchState(docs) ==
    /\ state_bin' = Some(Encode("bincode_state", [docs |-> docs]))
    /\ last_op' = [op |-> "save_search_state", path |-> <<>>]
    /\ UNCHANGED <<state, issued, threads, fs, manifest_json, bm25_bin, pc, run, result, hist>>

\* save_bm25(root, &rebuild_bm25(docs))
WriteBm25(docs) ==
    /\ bm25_bin' = Some(Encode("bincode_bm25", rebuild_bm25(docs)))
    /\ last_op' = [op |-> "save_bm25", path |-> <<>>]
    /\ UNCHANGED <<state, issued, threads, fs, manifest_json, state_bin, pc, run, result, hist>>

\* the query command: parse_query_filters, load_search_index, execute_query
Query(query, extra_filters, top_k) ==
    /\ last_op.op # "execute_query"
    /\ load_search_index(state_bin, bm25_bin) # None
    /\ LET parsed == parse_query_filters(query, extra_filters)
       IN \E response \in execute_query(load_search_index(state_bin, bm25_bin)[1],
                                        parsed.terms, top_k, parsed.filters) :
            last_op' = [op |-> "execute_query", path |-> <<>>,
                        filters |-> parsed.filters, response |-> response]
    /\ UNCHANGED <<state, issued, threads, indexVars>>

NextQuery ==
    \/ \E docs \in DocLists : WriteSearchState(docs)
    \/ \E docs \in DocLists : WriteBm25(docs)
    \/ \E query \in QueryStrings, extra_filters \in FilterLists, top_k \in 0..MaxTopK :
           Query(query, extra_filters, top_k)

SpecQuery == InitIndex /\ [][NextQuery]_vars

-----------------------------------------------------------------------------
(* SpecTokens: tokenize applied to a text                                  *)

HelloWorld == <<"H", "e", "l", "l", "o", "W", "o", "r", "l", "d">>
hello_world == <<"h", "e", "l", "l", "o", "_", "w", "o", "r", "l", "d">>
helloWorld2X == <<"h", "e", "l", "l", "o", "W", "o", "r", "l", "d", "2", "X">>
HTTPServer2 == <<"H", "T", "T", "P", "S", "e", "r", "v", "e", "r", "2">>

\* every text of at most n characters over a lower-case letter, an upper-case
\* letter, a digit, the underscore and the blank
RECURSIVE TextsUpTo(_)
TextsUpTo(n) ==
    IF n = 0 THEN {<<>>}
    ELSE TextsUpTo(n - 1)
            \cup {Append(t, c) : t \in {x \in TextsUpTo(n - 1) : Len(x) = n - 1},
                                 c \in {"a", "B", "2", "_", " "}}

TokenInputs == {HelloWorld, hello_world, helloWorld2X, HTTPServer2} \cup TextsUpTo(MaxText)

\* tokenize(text).collect(), the tokens lower-cased as add_document and search do
Tokenize(text) ==
    /\ last_op.op = "new"
    /\ last_op' = [op |-> "tokenize", path |-> <<>>, text |-> text,
                   tokens |-> [i \in DOMAIN tokenize_text(text) |->
                                  to_ascii_lowercase(tokenize_text(text)[i])]]
    /\ UNCHANGED <<state, issued, threads, indexVars>>

NextTokens == \E text \in TokenInputs : Tokenize(text)

SpecTokens == InitIndex /\ [][NextTokens]_vars

-----------------------------------------------------------------------------
(* TopologyBuilder (src/src/topology.rs)                                   *)

\* the longest list of Imports edges a holder of the State adds to the graph
MaxEdges == 2

\* the characters of a directory name or of a file stem
Chars(component) ==
    CASE component = Root     -> <<"r", "e", "p", "o">>
      [] component = "util"   -> <<"u", "t", "i", "l">>
      [] component = "mod.rs" -> <<"m", "o", "d">>
      [] component = "a.rs"   -> <<"a">>
      [] component = "b.rs"   -> <<"b">>

\* Path::file_name of a directory
file_name(path) == Chars(path[Len(path)])

\* Path::file_stem of a file
file_stem(path) == Chars(path[Len(path)])

\* Path::parent; the directory above the root holds nothing
parent_of(path) == IF Len(path) > 1 THEN Some(SubSeq(path, 1, Len(path) - 1)) ELSE None

\* str::starts_with
starts_with(text, pat) == Len(pat) <= Len(text) /\ SubSeq(text, 1, Len(pat)) = pat

TopologyMetrics_default == [relevance_score |-> 0, churn_count |-> 0, coverage |-> None]

\* the node is added with its default metrics and entered under its path
insert_node(st, path, weight) ==
    LET idx == node_added(st.topology)
    IN [st EXCEPT !.topology = add_node(@, weight),
                  !.path_to_node = Put(@, path, idx),
                  !.topology_metrics = Put(@, idx, TopologyMetrics_default)]

\* connect_to_parent: the nearest directory above that has a node, or that
\* holds a mod.rs and gets a Module node of its own, contains the node
RECURSIVE connect_to_parent(_, _, _, _)
RECURSIVE find_parent(_, _, _)
find_parent(st, tree, current_path) ==
    IF current_path = None THEN [st |-> st, parent_node |-> None]
    ELSE LET dir == current_path[1]
         IN IF dir \in DOMAIN st.path_to_node
            THEN [st |-> st, parent_node |-> Some(st.path_to_node[dir])]
            ELSE IF Append(dir, "mod.rs") \in DOMAIN tree
            THEN LET module_node == node_added(st.topology)
                     st1 == insert_node(st, dir,
                                [kind |-> "Module", name |-> file_name(dir), path |-> dir])
                 IN [st |-> connect_to_parent(st1, tree, dir, module_node),
                     parent_node |-> Some(module_node)]
            ELSE find_parent(st, tree, parent_of(dir))

connect_to_parent(st, tree, path, file_node) ==
    LET found == find_parent(st, tree, parent_of(path))
        graph == found.st.topology
        parent == IF found.parent_node # None THEN found.parent_node[1]
                  ELSE CHOOSE idx \in DOMAIN graph.nodes :
                          /\ graph.nodes[idx].kind = "Crate"
                          /\ \A other \in DOMAIN graph.nodes :
                                graph.nodes[other].kind = "Crate" => idx <= other
    IN [found.st EXCEPT !.topology = add_edge(@, parent, file_node, [kind |-> "Contains"])]

\* parse_file_imports when the read of path returns src
parse_file_imports(st, path, file_id, src) ==
    IF parser_for_file(path) = None THEN st
    ELSE LET imports == extract_imports(src, path)
         IN IF imports # <<>> THEN [st EXCEPT !.imports = Put(@, file_id, imports)] ELSE st

\* TopologyBuilder::add_file
add_file(st, tree, path) ==
    IF path \in DOMAIN st.path_to_node THEN st
    ELSE LET st1 == get_or_create_file_id(st, path)
             file_id == st1.file_ids[path]
             file_node == node_added(st1.topology)
             st2 == insert_node(st1, path, [kind |-> "File", path |-> path, file_id |-> file_id])
             st3 == connect_to_parent(st2, tree, path, file_node)
         IN parse_file_imports(st3, path, file_id, tree[path])

\* the node name occurs in the import path as the test of its kind asks
node_matches(node, import_path) ==
    CASE node.kind = "Module" -> contains(import_path, node.name)
      [] node.kind = "File"   -> contains(import_path, file_stem(node.path))
      [] node.kind = "Crate"  -> starts_with(import_path, node.name)

\* resolve_import_target: the first node in index order whose name matches.
\* It begins by taking topology.read(): a caller that holds topology.write()
\* on the same thread waits there for itself
resolve_import_target(st, import_path, write_held) ==
    IF write_held THEN [blocked |-> TRUE, target |-> None]
    ELSE LET graph == st.topology
             matching == {idx \in DOMAIN graph.nodes : node_matches(graph.nodes[idx], import_path)}
         IN [blocked |-> FALSE,
             target |-> IF matching = {} THEN None
                        ELSE Some(CHOOSE idx \in matching : \A other \in matching : idx <= other)]

\* the (source node, import) pairs build_import_edges collects: every import
\* kept under a FileId, from the node of a path registered under that FileId
import_map(st) ==
    UNION { LET paths == {p \in DOMAIN st.file_ids :
                            st.file_ids[p] = file_id /\ p \in DOMAIN st.path_to_node}
            IN IF paths = {} THEN {}
               ELSE { [source_node |-> st.path_to_node[CHOOSE p \in paths : TRUE],
                       import |-> st.imports[file_id][i]] :
                         i \in DOMAIN st.imports[file_id] }
            : file_id \in DOMAIN st.imports }

\* the loop of build_import_edges over the collected pairs, run while the
\* function holds topology.write()
RECURSIVE add_import_edges(_, _)
add_import_edges(st, pending) ==
    IF pending = {} THEN [returned |-> TRUE, st |-> st]
    ELSE LET next == CHOOSE m \in pending : TRUE
             resolved == resolve_import_target(st, next.import.path, TRUE)
         IN IF resolved.blocked THEN [returned |-> FALSE, st |-> st]
            ELSE add_import_edges(
                    IF resolved.target # None
                    THEN [st EXCEPT !.topology =
                             add_edge(@, next.source_node, resolved.target[1],
                                      [kind |-> "Imports", use_path |-> next.import.path])]
                    ELSE st,
                    pending \ {next})

build_import_edges(st) == add_import_edges(st, import_map(st))

\* relevance scores are kept in millionths, every division rounded down; the
\* damping factor 0.85 in hundredths and the threshold 1e-6 in millionths
Scale == 1000000
DAMPING == 85
MAX_ITERATIONS == 50
CONVERGENCE_THRESHOLD == 1

\* the sum of f over the set S
RECURSIVE Sum(_, _)
Sum(f, S) == IF S = {} THEN 0 ELSE LET x == CHOOSE y \in S : TRUE IN f[x] + Sum(f, S \ {x})

out_degree(graph, n) == Cardinality({i \in DOMAIN graph.edges : graph.edges[i].source = n})

\* the sum over the incoming edges of the score of the source divided by its
\* out-degree: an edge counts once for every time it was added
rank_sum(graph, scores, n) ==
    LET incoming == {i \in DOMAIN graph.edges : graph.edges[i].target = n}
    IN Sum([i \in incoming |->
               IF out_degree(graph, graph.edges[i].source) > 0
               THEN scores[graph.edges[i].source] \div out_degree(graph, graph.edges[i].source)
               ELSE 0],
           incoming)

Abs(x) == IF x < 0 THEN -x ELSE x

\* the new score of a node whose share of the undamped part is not divided by
\* the number of nodes
new_score_undivided(graph, scores, n) ==
    ((100 - DAMPING) * Scale) \div 100 + (DAMPING * rank_sum(graph, scores, n)) \div 100

\* the new score of a node: (1 - DAMPING) / node_count + DAMPING * rank_sum
new_score(graph, scores, n) ==
    ((100 - DAMPING) * Scale) \div (100 * Cardinality(DOMAIN graph.nodes))
        + (DAMPING * rank_sum(graph, scores, n)) \div 100

\* one round of the damped iteration: the new score of every node of `nodes`
RECURSIVE new_scores_of(_, _, _)
new_scores_of(graph, scores, nodes) ==
    IF nodes = {} THEN EmptyMap
    ELSE LET n == CHOOSE x \in nodes : TRUE
         IN (n :> new_score(graph, scores, n)) @@ new_scores_of(graph, scores, nodes \ {n})

\* the rounds of the damped iteration from round `iteration` on
RECURSIVE iterate(_, _, _)
iterate(graph, scores, iteration) ==
    IF iteration >= MAX_ITERATIONS THEN [scores |-> scores, rounds |-> iteration]
    ELSE LET new_scores == new_scores_of(graph, scores, DOMAIN graph.nodes)
             diff == Sum([n \in DOMAIN graph.nodes |-> Abs(new_scores[n] - scores[n])],
                         DOMAIN graph.nodes)
         IN IF diff < CONVERGENCE_THRESHOLD
            THEN [scores |-> new_scores, rounds |-> iteration + 1]
            ELSE iterate(graph, new_scores, iteration + 1)

\* the scores and the number of rounds compute_pagerank ends with
pagerank(graph) ==
    LET node_count == Cardinality(DOMAIN graph.nodes)
    IN iterate(graph, [n \in DOMAIN graph.nodes |-> Scale \div node_count], 0)

\* TopologyBuilder::compute_pagerank
compute_pagerank(st) ==
    IF DOMAIN st.topology.nodes = {} THEN st
    ELSE LET scores == pagerank(st.topology).scores
         IN [st EXCEPT !.topology_metrics =
                [n \in DOMAIN @ \cup DOMAIN scores |->
                    IF n \notin DOMAIN scores THEN @[n]
                    ELSE IF n \in DOMAIN @ THEN [@[n] EXCEPT !.relevance_score = scores[n]]
                    ELSE [TopologyMetrics_default EXCEPT !.relevance_score = scores[n]]]]

\* the files of build added in the order discover lists them
RECURSIVE add_files(_, _, _)
add_files(st, tree, files) ==
    IF files = <<>> THEN st ELSE add_files(add_file(st, tree, Head(files)), tree, Tail(files))

\* TopologyBuilder::build on the tree under Root, discover listing the files
\* in the order `files`
build(st, tree, files) ==
    LET cleared == [st EXCEPT !.topology = StableGraph_new,
                              !.path_to_node = EmptyMap,
                              !.topology_metrics = EmptyMap]
        rooted == insert_node(cleared, <<Root>>,
                     [kind |-> "Crate", name |-> file_name(<<Root>>), path |-> <<Root>>])
        edges == build_import_edges(add_files(rooted, tree, files))
    IN IF edges.returned
       THEN [returned |-> TRUE, st |-> compute_pagerank(edges.st)]
       ELSE [returned |-> FALSE, st |-> edges.st]

\* the files a tree holds
TopoFiles == {<<Root, "a.rs">>, <<Root, "util", "mod.rs">>, <<Root, "util", "b.rs">>}

\* use a;
SrcUseA == << UseItem(<<"a">>, 0) >>
\* use util::a; use data;
SrcUseUtil == << UseItem(<<"u", "t", "i", "l", ":", ":", "a">>, 0),
                 UseItem(<<"d", "a", "t", "a">>, 1) >>

\* the trees build is called on: every set of the files, each with no
\* import, an import of a, or two further imports
TopoTrees == UNION {[D -> {SrcFoo, SrcUseA, SrcUseUtil}] : D \in SUBSET TopoFiles}

\* the lists of at most n (source, target) pairs over the nodes of a graph,
\* one list for every choice of pairs with repetitions
RECURSIVE EdgeLists(_, _)
EdgeLists(nodes, n) ==
    IF n = 0 THEN {<<>>}
    ELSE EdgeLists(nodes, n - 1)
            \cup {Append(l, e) : <<l, e>> \in
                    {<<x, y>> \in EdgeLists(nodes, n - 1) \X (nodes \X nodes) :
                        /\ Len(x) = n - 1
                        /\ x # <<>> =>
                              \/ x[Len(x)][1] < y[1]
                              \/ x[Len(x)][1] = y[1] /\ x[Len(x)][2] <= y[2]}}

RECURSIVE add_edges(_, _)
add_edges(graph, list) ==
    IF list = <<>> THEN graph
    ELSE add_edges(add_edge(graph, Head(list)[1], Head(list)[2],
                            [kind |-> "Imports", use_path |-> <<>>]),
                   Tail(list))

\* builder.build(&state, root)
Build(tree, files) ==
    /\ last_op.op \in {"new", "build"}
    /\ last_op.op = "build" => last_op.returned
    /\ LET built == build(state, tree, files)
       IN /\ state' = built.st
          /\ last_op' = [op |-> "build", path |-> <<Root>>, tree |-> tree,
                         returned |-> built.returned,
                         rounds |-> IF built.returned THEN pagerank(built.st.topology).rounds
                                    ELSE 0]
    /\ UNCHANGED <<issued, threads, indexVars>>

\* builder.compute_pagerank(&state) by a holder of the State that has added
\* Imports edges to the graph, which is a public field; the State holds the
\* files of the tree built last and no others
ComputePagerank(list) ==
    /\ last_op.op = "build" /\ last_op.returned
    /\ DOMAIN state.file_ids = DOMAIN last_op.tree
    /\ LET st == [state EXCEPT !.topology = add_edges(@, list)]
       IN /\ state' = compute_pagerank(st)
          /\ last_op' = [op |-> "compute_pagerank", path |-> <<Root>>,
                         rounds |-> pagerank(st.topology).rounds]
    /\ UNCHANGED <<issued, threads, indexVars>>

NextTopology ==
    \/ \E tree \in TopoTrees : \E files \in Orders(DOMAIN tree) : Build(tree, files)
    \/ \E list \in EdgeLists({n \in DOMAIN state.topology.nodes : n <= 2}, MaxEdges) :
           ComputePagerank(list)

SpecTopology == InitIndex /\ [][NextTopology]_vars

-----------------------------------------------------------------------------
(* InterventionEngine::suggest_alternatives (src/src/intervention/mod.rs)  *)

\* the symbols added to the State before alternatives are asked for
MaxSuggested == 11

\* the simple names of the symbols and of the proposals
SuggestNames == {"foo", "foo_bar"}

\* the characters of a name
name_chars(name) ==
    IF name = "foo" THEN <<"f", "o", "o">> ELSE <<"f", "o", "o", "_", "b", "a", "r">>

\* str::ends_with
ends_with(text, pat) ==
    Len(pat) <= Len(text) /\ SubSeq(text, Len(text) - Len(pat) + 1, Len(text)) = pat

\* strsim::jaro_winkler of two of the names, in thousandths: three matching
\* characters out of 3 and 7 in the same order give a Jaro similarity of
\* 0.8095, the common prefix of 3 characters raises it to 0.8667
jaro_winkler(a, b) == IF a = b THEN 1000 ELSE 866

\* the Intervention pushed for a symbol, without its texts
Intervention(severity, symbol, score) ==
    [severity |-> severity, existing_symbol |-> symbol.scoped_name,
     existing_location |-> symbol.location, similarity_score |-> score]

\* the loop of suggest_alternatives over state.symbols, iterated in `order`:
\* a symbol of the proposed name is skipped before the length is looked at
RECURSIVE similar_names(_, _, _, _)
similar_names(st, name, order, interventions) ==
    IF order = <<>> THEN interventions
    ELSE LET symbol == st.symbols[Head(order)]
             name_lower == name_chars(name)
             symbol_name_lower == name_chars(symbol.name)
             has_prefix == \/ starts_with(name_lower, symbol_name_lower)
                           \/ starts_with(symbol_name_lower, name_lower)
             has_suffix == \/ ends_with(name_lower, symbol_name_lower)
                           \/ ends_with(symbol_name_lower, name_lower)
             score == jaro_winkler(name, symbol.name)
             pushed == IF (has_prefix \/ has_suffix) /\ score > 700
                       THEN Append(interventions, Intervention("Info", symbol, score))
                       ELSE interventions
         IN IF symbol.name = name THEN similar_names(st, name, Tail(order), interventions)
            ELSE IF Len(pushed) >= 10 THEN pushed
            ELSE similar_names(st, name, Tail(order), pushed)

\* slice::sort_by on the similarity score, highest first, a stable sort
RECURSIVE insert_by_score(_, _)
insert_by_score(x, sorted) ==
    IF sorted = <<>> THEN <<x>>
    ELSE IF x.similarity_score > Head(sorted).similarity_score THEN <<x>> \o sorted
    ELSE <<Head(sorted)>> \o insert_by_score(x, Tail(sorted))

sort_by_score(interventions) ==
    LET Sorted[i \in 0..Len(interventions)] ==
            IF i = 0 THEN <<>> ELSE insert_by_score(interventions[i], Sorted[i - 1])
    IN Sorted[Len(interventions)]

\* suggest_alternatives(state, name), state.symbols iterated in `order`
suggest_alternatives(st, name, order) ==
    LET exact_matches == find_by_name(st, name)
        interventions == [i \in 1..Len(exact_matches) |->
                             Intervention("Warning", exact_matches[i], 1000)]
    IN sort_by_score(similar_names(st, name, order, interventions))

\* the i-th symbol added: a function named n in a module of its own
Suggested(i, n) ==
    [SymbolNamed(<<"crate", ToString(i), n>>, n, path_join(Root, "a.rs")) EXCEPT
        !.location.start_byte = i, !.location.end_byte = i + 1]

\* two of the orders state.symbols is iterated in: as added, and reversed
IterationOrders(st) ==
    LET count == Cardinality(DOMAIN st.symbols)
        added == [i \in 1..count |->
                     CHOOSE sc \in DOMAIN st.symbols : st.symbols[sc].location.start_byte = i]
    IN {added, [i \in 1..count |-> added[count + 1 - i]]}

\* state.add_symbol of the next symbol
AddSuggested(n) ==
    /\ state.symbol_count < MaxSuggested
    /\ state' = add_symbol(state, Suggested(state.symbol_count + 1, n))
    /\ last_op' = [op |-> "add_symbol", path |-> path_join(Root, "a.rs")]
    /\ UNCHANGED <<issued, threads, indexVars>>

\* InterventionEngine::suggest_alternatives(&state, name)
Suggest(name, order) ==
    /\ last_op.op # "suggest_alternatives"
    /\ last_op' = [op |-> "suggest_alternatives", path |-> <<>>, name |-> name,
                   interventions |-> suggest_alternatives(state, name, order)]
    /\ UNCHANGED <<state, issued, threads, indexVars>>

NextSuggest ==
    \/ \E n \in SuggestNames : AddSuggested(n)
    \/ \E name \in SuggestNames : \E order \in IterationOrders(state) : Suggest(name, order)

SpecSuggest == InitIndex /\ [][NextSuggest]_vars

-----------------------------------------------------------------------------
(* ContextSynthesizer::build_context (src/src/context/mod.rs)              *)

\* the largest line a context query asks for
MaxLine == 4

\* the texts of the model are laid out one byte per line: the row of a
\* position is its byte offset
start_line_of(location) == location.start_byte
end_line_of(location) == location.end_byte

\* contents.lines().collect(): the rows of the text
lines_of(src) == [i \in 1..SizeBytes(src) |-> i - 1]

\* lines[start..end].join("\n").len() / 4 for rows of one byte each
estimate_tokens(chunk) ==
    (IF Len(chunk.content) = 0 THEN 0 ELSE 2 * Len(chunk.content) - 1) \div 4

\* OciState::get_file_contents: the cached contents, else those read from the
\* disk, which are then cached
get_file_contents(st, disk, path) ==
    IF path \in DOMAIN st.file_contents
    THEN [st |-> st, contents |-> Some(st.file_contents[path])]
    ELSE IF disk[path] # None
    THEN [st |-> [st EXCEPT !.file_contents = Put(@, path, disk[path][1])],
          contents |-> disk[path]]
    ELSE [st |-> st, contents |-> None]

\* the first symbol of the file whose lines include the line
find_symbol_at_location(st, file, line) ==
    IF file \notin DOMAIN st.file_ids THEN None
    ELSE IF st.file_ids[file] \notin DOMAIN st.file_symbols THEN None
    ELSE LET at == Retain(st.file_symbols[st.file_ids[file]],
                          LAMBDA sc : /\ sc \in DOMAIN st.symbols
                                      /\ start_line_of(st.symbols[sc].location) <= line
                                      /\ end_line_of(st.symbols[sc].location) >= line)
         IN IF at = <<>> THEN None ELSE Some(at[1])

\* resolve_callee: the first public symbol of the name, else the first
resolve_callee(st, callee_name) ==
    LET symbols == find_by_name(st, callee_name)
        public == Retain(symbols, LAMBDA s : s.visibility = "Public")
    IN IF symbols = <<>> THEN None
       ELSE IF public # <<>> THEN Some(public[1].scoped_name)
       ELSE Some(symbols[1].scoped_name)

\* get_pagerank_score: the relevance score of the node of the symbol's file
get_pagerank_score(st, symbol) ==
    IF symbol \notin DOMAIN st.symbols THEN 0
    ELSE IF st.symbols[symbol].location.file \notin DOMAIN st.path_to_node THEN 0
    ELSE LET node_idx == st.path_to_node[st.symbols[symbol].location.file]
         IN IF node_idx \in DOMAIN st.topology_metrics
            THEN st.topology_metrics[node_idx].relevance_score ELSE 0

\* sort_by on the score, highest first, a stable sort
RECURSIVE insert_candidate(_, _)
insert_candidate(x, sorted) ==
    IF sorted = <<>> THEN <<x>>
    ELSE IF x.score > Head(sorted).score THEN <<x>> \o sorted
    ELSE <<Head(sorted)>> \o insert_candidate(x, Tail(sorted))

\* rank_symbols_with_reasons: base_score * 0.7 + pagerank_score * 0.3, in
\* millionths
rank_symbols_with_reasons(st, candidates) ==
    LET scored == [i \in DOMAIN candidates |->
                      [candidates[i] EXCEPT
                          !.score = (@ * 7) \div 10
                                       + (get_pagerank_score(st, candidates[i].symbol) * 3)
                                            \div 10]]
        Sorted[i \in 0..Len(scored)] ==
            IF i = 0 THEN <<>> ELSE insert_candidate(scored[i], Sorted[i - 1])
    IN Sorted[Len(scored)]

Candidate(symbol, score, reason) == [symbol |-> symbol, score |-> score, reason |-> reason]

\* find_symbol_by_name: the best ranked symbol of the name
find_symbol_by_name(st, name) ==
    LET symbols == find_by_name(st, name)
        ranked == rank_symbols_with_reasons(st,
                     [i \in DOMAIN symbols |->
                         Candidate(symbols[i].scoped_name, 1000000, "Candidate")])
    IN IF symbols = <<>> THEN None ELSE Some(ranked[1].symbol)

\* iter().take(n)
take(s, n) == SubSeq(s, 1, IF Len(s) < n THEN Len(s) ELSE n)

\* step 2 of build_context for the symbol at the location: the symbol, its
\* resolved callees, at most 5 callers and its parent; the symbols of the
\* model carry no signature
candidates_of(st, current_symbol) ==
    LET callees == find_callees(st, current_symbol)
        resolved == Retain(callees, LAMBDA e : resolve_callee(st, e.callee_name) # None)
        current_name == st.symbols[current_symbol].name
        callers == take(find_callers(st, current_name), 5)
        symbol_def == get_symbol(st, current_symbol)
    IN <<Candidate(current_symbol, 1000000, "Current location")>>
       \o [i \in DOMAIN resolved |->
              Candidate(resolve_callee(st, resolved[i].callee_name)[1], 800000, "Called by")]
       \o [i \in DOMAIN callers |-> Candidate(callers[i].caller, 600000, "Calls")]
       \o (IF symbol_def # None /\ symbol_def[1].parent # None
           THEN <<Candidate(symbol_def[1].parent[1], 700000, "Parent of")>> ELSE <<>>)

\* the candidates of at most 5 imports of the file
import_candidates(st, file_id) ==
    IF file_id \notin DOMAIN st.imports THEN <<>>
    ELSE LET found == Retain(take(st.imports[file_id], 5),
                             LAMBDA import : find_symbol_by_name(st, import.name) # None)
         IN [i \in DOMAIN found |->
                Candidate(find_symbol_by_name(st, found[i].name)[1], 400000, "Imported")]

\* create_location_chunk: lines[start_line..end_line] panics when the range
\* starts behind its end
create_location_chunk(st, disk, file, line, surrounding_lines) ==
    LET read == get_file_contents(st, disk, file)
    IN IF read.contents = None THEN [st |-> read.st, outcome |-> "Err", chunk |-> None]
       ELSE LET lines == lines_of(read.contents[1])
                total_lines == Len(lines)
                start_line == IF line - surrounding_lines > 0 THEN line - surrounding_lines
                              ELSE 0
                end_line == Min(line + surrounding_lines, total_lines)
            IN IF start_line > end_line
               THEN [st |-> read.st, outcome |-> "Panic", chunk |-> None]
               ELSE [st |-> read.st, outcome |-> "Ok",
                     chunk |-> Some([symbol |-> None, file |-> file,
                                     content |-> SubSeq(lines, start_line + 1, end_line),
                                     relevance |-> 1000000])]

\* create_symbol_chunk: an error when the symbol is gone, its file cannot be
\* read or its lines lie outside the file
create_symbol_chunk(st, disk, symbol, relevance) ==
    IF symbol \notin DOMAIN st.symbols THEN [st |-> st, outcome |-> "Err", chunk |-> None]
    ELSE LET symbol_def == st.symbols[symbol]
             read == get_file_contents(st, disk, symbol_def.location.file)
         IN IF read.contents = None THEN [st |-> read.st, outcome |-> "Err", chunk |-> None]
            ELSE LET lines == lines_of(read.contents[1])
                     first == IF start_line_of(symbol_def.location) > 0
                              THEN start_line_of(symbol_def.location) - 1 ELSE 0
                     last == end_line_of(symbol_def.location)
                 IN IF first >= Len(lines) \/ last > Len(lines)
                    THEN [st |-> read.st, outcome |-> "Err", chunk |-> None]
                    ELSE [st |-> read.st, outcome |-> "Ok",
                          chunk |-> Some([symbol |-> Some(symbol),
                                          file |-> symbol_def.location.file,
                                          content |-> SubSeq(lines, first + 1, last),
                                          relevance |-> relevance])]

\* step 4 of build_context: the ranked symbols added within the token budget
RECURSIVE add_ranked(_, _, _, _, _)
add_ranked(st, disk, ranked, max_tokens, acc) ==
    IF ranked = <<>> \/ acc.total_tokens >= max_tokens THEN [acc EXCEPT !.st = st]
    ELSE LET next == Head(ranked)
         IN IF next.symbol \in acc.seen
            THEN add_ranked(st, disk, Tail(ranked), max_tokens, acc)
            ELSE LET seen == [acc EXCEPT !.seen = @ \cup {next.symbol}]
                     made == create_symbol_chunk(st, disk, next.symbol, next.score)
                 IN IF made.outcome # "Ok"
                       \/ acc.total_tokens + estimate_tokens(made.chunk[1]) > max_tokens
                    THEN add_ranked(made.st, disk, Tail(ranked), max_tokens, seen)
                    ELSE add_ranked(made.st, disk, Tail(ranked), max_tokens,
                            [seen EXCEPT
                                !.total_tokens = @ + estimate_tokens(made.chunk[1]),
                                !.primary = IF next.score >= 600000
                                            THEN Append(@, made.chunk[1]) ELSE @,
                                !.related = IF next.score >= 600000
                                            THEN @ ELSE Append(@, made.chunk[1])])

\* ContextSynthesizer::build_context when the files read as `disk` says
build_context(st, disk, query) ==
    LET symbol_at_location == find_symbol_at_location(st, query.file, query.line)
        own == IF symbol_at_location # None
               THEN candidates_of(st, symbol_at_location[1]) ELSE <<>>
        st1 == get_or_create_file_id(st, query.file)
        candidates == own \o import_candidates(st1, st1.file_ids[query.file])
        ranked == rank_symbols_with_reasons(st1, candidates)
        location == create_location_chunk(st1, disk, query.file, query.line,
                                          query.surrounding_lines)
        first == [st |-> location.st, seen |-> {}, related |-> <<>>,
                  primary |-> IF location.outcome = "Ok" THEN <<location.chunk[1]>>
                              ELSE <<>>,
                  total_tokens |-> IF location.outcome = "Ok"
                                   THEN estimate_tokens(location.chunk[1]) ELSE 0]
        built == add_ranked(location.st, disk, ranked, query.max_tokens, first)
    IN IF location.outcome = "Panic"
       THEN [st |-> location.st, outcome |-> "Panic", result |-> None]
       ELSE [st |-> built.st, outcome |-> "Ok",
             result |-> Some([primary |-> built.primary, related |-> built.related,
                              total_tokens |-> built.total_tokens])]

\* the queries: a file, a line, the lines around it and the token budget
ContextQueries ==
    [file : AbsPaths, line : 0..MaxLine, surrounding_lines : {0, 1}, max_tokens : {0, 4000}]

\* what a read of each file returns: an error or one of two texts
Disks == [AbsPaths -> {None, Some(SrcFoo), Some(SrcMain)}]

\* synthesizer.build_context(&state, &query).await
BuildContext(query, disk) ==
    /\ last_op.op # "build_context"
    /\ LET built == build_context(state, disk, query)
       IN /\ state' = built.st
          /\ last_op' = [op |-> "build_context", path |-> query.file, query |-> query,
                         before |-> state, outcome |-> built.outcome,
                         result |-> built.result]
    /\ UNCHANGED <<issued, threads, indexVars>>

NextContext ==
    \/ \E p \in AbsPaths, src \in {SrcBar, SrcMain} : IndexNewFile(p, src)
    \/ \E query \in ContextQueries, disk \in Disks : BuildContext(query, disk)

SpecContext == InitIndex /\ [][NextContext]_vars

-----------------------------------------------------------------------------
(* SpecBm25: a Bm25Index filled by add_document and finalized              *)

\* the documents added to one index
MaxDocs == 3

\* the tokens of the three fields of a document
PathTokens == {<<>>, <<"foo">>}
IdentTokens == {<<"Foo">>, <<"bar">>}
CodeTexts == {<<>>, <<"foo", "Foo">>, <<"bar", "", "foo">>, <<"bar", "bar">>}

\* the index the caller holds
held_index == IF last_op.op \in {"add_document", "finalize"} THEN last_op.index
              ELSE Bm25Index_new

\* the tokens the caller has passed so far, document by document
held_added == IF last_op.op \in {"add_document", "finalize"} THEN last_op.added ELSE <<>>

\* index.add_document(symbol, path_tokens, ident_tokens, [], [], code_text)
AddDocument(path_toks, ident_toks, code_text) ==
    /\ last_op.op \in {"new", "add_document", "finalize"}
    /\ Len(held_index.docs) < MaxDocs
    /\ last_op' = [op |-> "add_document", path |-> <<>>,
                   index |-> add_document(held_index, path_toks, ident_toks, code_text),
                   added |-> Append(held_added, path_toks \o ident_toks \o Words(code_text))]
    /\ UNCHANGED <<state, issued, threads, indexVars>>

\* index.finalize()
Finalize ==
    /\ last_op.op \in {"new", "add_document"}
    /\ last_op' = [op |-> "finalize", path |-> <<>>, index |-> finalize(held_index),
                   added |-> held_added]
    /\ UNCHANGED <<state, issued, threads, indexVars>>

NextBm25 ==
    \/ \E p \in PathTokens, i \in IdentTokens, c \in CodeTexts : AddDocument(p, i, c)
    \/ Finalize

SpecBm25 == InitIndex /\ [][NextBm25]_vars

-----------------------------------------------------------------------------
(* SpecTopK: queries with a filter over an index in which the documents    *)
(* that fail the filter outnumber the search window                         *)

\* the functions of the larger file
MaxCallers == 5

\* fn foo() { foo() }, n times over
SrcCallers(n) == [i \in 1..n |-> FnItem("foo", <<"foo">>, 3 * (i - 1))]

\* the document lists: a.rs with one function or with MaxCallers functions
\* that call foo, then b.rs with one function or absent
TopKDocLists ==
    {parse_file(path_join(Root, "a.rs"), Root, a).docs \o b :
        a \in {SrcFoo, SrcCallers(MaxCallers)},
        b \in {<<>>, parse_file(path_join(Root, "b.rs"), Root, SrcFoo).docs}}

NextTopK ==
    \/ \E docs \in TopKDocLists : WriteSearchState(docs)
    \/ \E docs \in TopKDocLists : WriteBm25(docs)
    \/ \E extra_filters \in {<<>>, << <<"path:", "a">> >>, << <<"path:", "b">> >>},
          top_k \in 1..MaxTopK :
           Query(<< <<"foo">> >>, extra_filters, top_k)

SpecTopK == InitIndex /\ [][NextTopK]_vars

-----------------------------------------------------------------------------
(* SpecReach: compute_reachable with its queue, over call graphs with      *)
(* recursion, parent cycles and names that no symbol bears                 *)

\* the call edges of a State of SpecReach
MaxCalls == 4

\* the turns of the while loop after which the model gives up: more than the
\* scoped names a State within the bounds can mention
MaxTurns == 2 * MaxAnalyzed + MaxCalls + 2

\* `reachable.insert(entry); queue.push_back(entry)` of the first loop
enter(bfs, entry) ==
    [bfs EXCEPT !.reachable = @ \cup {entry},
                !.queue = Append(@, entry),
                !.pushed = Append(@, entry)]

\* visit whose push does not depend on the outcome of the insert
visit_always_pushing(bfs, name) ==
    [bfs EXCEPT !.reachable = @ \cup {name},
                !.queue = Append(@, name),
                !.pushed = Append(@, name)]

\* `if reachable.insert(name) { queue.push_back(name) }`
visit(bfs, name) ==
    IF name \in bfs.reachable THEN bfs
    ELSE [bfs EXCEPT !.reachable = @ \cup {name},
                     !.queue = Append(@, name),
                     !.pushed = Append(@, name)]

RECURSIVE enter_all(_, _)
enter_all(bfs, entry_points) ==
    IF entry_points = <<>> THEN bfs
    ELSE enter_all(enter(bfs, Head(entry_points)), Tail(entry_points))

RECURSIVE visit_all(_, _)
visit_all(bfs, names) ==
    IF names = <<>> THEN bfs
    ELSE visit_all(visit(bfs, Head(names)), Tail(names))

\* the scoped names the loop over callees visits, in its order
RECURSIVE callee_scoped(_, _)
callee_scoped(st, callees) ==
    IF callees = <<>> THEN <<>>
    ELSE LET callee_symbols == find_by_name(st, Head(callees).callee_name)
         IN [i \in 1..Len(callee_symbols) |-> callee_symbols[i].scoped_name]
                \o callee_scoped(st, Tail(callees))

\* the parent handle visited after the callees
parent_scoped(st, current) ==
    IF get_symbol(st, current) # None /\ get_symbol(st, current)[1].parent # None
    THEN <<get_symbol(st, current)[1].parent[1]>>
    ELSE <<>>

\* the while loop: a turn pops the front of the queue
RECURSIVE drain(_, _)
drain(st, bfs) ==
    IF bfs.queue = <<>> \/ bfs.turns = MaxTurns THEN bfs
    ELSE LET current == Head(bfs.queue)
             popped  == [bfs EXCEPT !.queue = Tail(@), !.turns = @ + 1]
         IN drain(st, visit_all(popped, callee_scoped(st, find_callees(st, current))
                                            \o parent_scoped(st, current)))

\* compute_reachable on the entry points in the order identify_entry_points
\* met them; `pushed` lists every push_back
breadth_first(st, entry_points) ==
    drain(st, enter_all([reachable |-> {}, queue |-> <<>>, pushed |-> <<>>, turns |-> 0],
                        entry_points))

\* the symbols add_symbol is called with: foo and bar, each the parent of
\* the other, bar its own parent, and an entry point whose parent is not stored
ReachSymbols ==
    { [SymbolNamed(<<"crate", "foo">>, "foo", path_join(Root, "a.rs")) EXCEPT
          !.visibility = "Public", !.parent = Some(<<"crate", "bar">>)],
      SymbolNamed(<<"crate", "foo">>, "foo", path_join(Root, "a.rs")),
      [SymbolNamed(<<"crate", "bar">>, "bar", path_join(Root, "a.rs")) EXCEPT
          !.parent = Some(<<"crate", "foo">>)],
      [SymbolNamed(<<"crate", "bar">>, "bar", path_join(Root, "a.rs")) EXCEPT
          !.parent = Some(<<"crate", "bar">>)],
      [SymbolNamed(<<"crate", "h">>, "h", path_join(Root, "a.rs")) EXCEPT
          !.visibility = "Public", !.parent = Some(<<"crate", "gone">>)] }

\* the edges add_call_edge is called with: foo calls itself, foo and bar call
\* each other, foo calls a name that no symbol bears
ReachEdges ==
    {[caller |-> <<"crate", c>>, callee_name |-> n,
      location |-> [file |-> path_join(Root, "a.rs"), start_byte |-> 1, end_byte |-> 2]] :
        <<c, n>> \in {<<"foo", "foo">>, <<"foo", "bar">>, <<"bar", "foo">>, <<"foo", "gone">>}}

Grown(op, st) ==
    /\ st.symbol_count <= MaxAnalyzed
    /\ Len(st.call_edges) <= MaxCalls
    /\ state' = st
    /\ last_op' = [op |-> op, path |-> path_join(Root, "a.rs")]
    /\ UNCHANGED <<issued, threads, indexVars>>

\* compute_reachable(&state, &entry_points): the State is read
ComputeReachable(entry_points) ==
    /\ last_op.op # "compute_reachable"
    /\ last_op' = [op |-> "compute_reachable", path |-> <<>>,
                   entry_points |-> entry_points,
                   bfs |-> breadth_first(state, entry_points)]
    /\ UNCHANGED <<state, issued, threads, indexVars>>

NextReach ==
    \/ \E sym \in ReachSymbols : Grown("add_symbol", add_symbol(state, sym))
    \/ \E e \in ReachEdges :
           /\ e \notin Range(state.call_edges)
           /\ Grown("add_call_edge", add_call_edge(state, e))
    \/ \E entry_points \in Orders(identify_entry_points(state)) :
           ComputeReachable(entry_points)

SpecReach == InitIndex /\ [][NextReach]_vars

-----------------------------------------------------------------------------
(* SpecIds: get_or_create_file_id, clear_file and reset called one after   *)
(* the other, with the FileIds the callers have been given                 *)

\* the paths FileIds are asked for
IdPaths == {path_join(Root, rel) : rel \in SourceFiles \cup OtherFiles}

\* the caller of get_or_create_file_id keeps the FileId it is given
IdGet(p) ==
    /\ state' = get_or_create_file_id(state, p)
    /\ last_op' = [op |-> "get_or_create_file_id", path |-> p]
    /\ issued' = [ever |-> issued.ever \cup {<<p, state'.file_ids[p]>>},
                  now |-> issued.now \cup {<<p, state'.file_ids[p]>>}]
    /\ UNCHANGED <<threads, indexVars>>

IdClear(p) ==
    /\ state' = clear_file(state, p)
    /\ last_op' = [op |-> "clear_file", path |-> p]
    /\ UNCHANGED <<issued, threads, indexVars>>

IdReset ==
    /\ state' = reset(state)
    /\ last_op' = [op |-> "reset", path |-> <<>>]
    /\ issued' = [issued EXCEPT !.now = {}]
    /\ UNCHANGED <<threads, indexVars>>

NextIds ==
    \/ \E p \in IdPaths : IdGet(p)
    \/ \E p \in IdPaths : IdClear(p)
    \/ IdReset

SpecIds == InitIndex /\ [][NextIds]_vars

-----------------------------------------------------------------------------
(* SpecThreads: get_or_create_file_id called by two threads at once; each  *)
(* access of a DashMap entry or of an atomic is one step                   *)

ThreadStep(t, next) ==
    /\ threads' = [threads EXCEPT ![t] = next]
    /\ UNCHANGED <<last_op, issued, indexVars>>

\* thread t enters get_or_create_file_id(p)
Enter(t, p) ==
    /\ threads[t].pc \in {"idle", "done"}
    /\ state.file_id_counter < MaxFileIds
    /\ state' = state
    /\ ThreadStep(t, [pc |-> "get", path |-> p, id |-> None, ret |-> None])

\* `if let Some(id) = self.file_ids.get(path) { return *id; }`
LookUp(t) ==
    /\ threads[t].pc = "get"
    /\ state' = state
    /\ LET found == Get(state.file_ids, threads[t].path)
       IN IF found # None
          THEN ThreadStep(t, [threads[t] EXCEPT !.pc = "done", !.ret = found])
          ELSE ThreadStep(t, [threads[t] EXCEPT !.pc = "fetch_add"])

\* `let id = FileId(self.file_id_counter.fetch_add(1, SeqCst));`
FetchAdd(t) ==
    /\ threads[t].pc = "fetch_add"
    /\ state' = [state EXCEPT !.file_id_counter = @ + 1]
    /\ ThreadStep(t, [threads[t] EXCEPT !.pc = "insert", !.id = Some(state.file_id_counter)])

\* `self.file_ids.insert(path.clone(), id);`
Insert(t) ==
    /\ threads[t].pc = "insert"
    /\ state' = [state EXCEPT !.file_ids = Put(@, threads[t].path, threads[t].id[1])]
    /\ ThreadStep(t, [threads[t] EXCEPT !.pc = "count"])

\* `self.file_count.fetch_add(1, SeqCst); id`
CountFile(t) ==
    /\ threads[t].pc = "count"
    /\ state' = [state EXCEPT !.file_count = @ + 1]
    /\ ThreadStep(t, [threads[t] EXCEPT !.pc = "done", !.ret = threads[t].id])

NextThreads ==
    \/ \E t \in Threads, p \in AbsPaths : Enter(t, p)
    \/ \E t \in Threads : LookUp(t)
    \/ \E t \in Threads : FetchAdd(t)
    \/ \E t \in Threads : Insert(t)
    \/ \E t \in Threads : CountFile(t)

SpecThreads == InitIndex /\ [][NextThreads]_vars

-----------------------------------------------------------------------------
(* Shared vocabulary of the properties *)

\* the source files FileDiscovery finds in the tree
Discovered == {rel \in SourceFiles : fs[rel] # None}

SymbolsIn(st, path) == {st.symbols[k] : k \in {x \in DOMAIN st.symbols : st.symbols[x].location.file = path}}

EdgesIn(st, path) == Retain(st.call_edges, LAMBDA e : e.location.file = path)

ImportsOf(st, path) ==
    IF path \in DOMAIN st.file_ids /\ st.file_ids[path] \in DOMAIN st.imports
    THEN st.imports[st.file_ids[path]] ELSE <<>>

\* nothing of the file is left in the state
NoTraceOf(st, path) ==
    /\ SymbolsIn(st, path) = {}
    /\ EdgesIn(st, path) = <<>>
    /\ ImportsOf(st, path) = <<>>

DocsOf(docs, rel) == Retain(docs, LAMBDA doc : doc.file = rel)

\* the documents a parse of the file as it is now produces
FreshDocs(rel) == parse_file(path_join(Root, rel), Root, fs[rel][1].contents).docs

\* an index call is about to return Ok(report): everything is written
Returning == pc = "return"

-----------------------------------------------------------------------------
(* C1 *)

\* C1: after clear_file(p) returns, whatever calls preceded it, the state holds
\* no symbol located in p, no call edge located in p and no imports entry for p.
C1_ClearFileLeavesNothing ==
    last_op.op = "clear_file" => NoTraceOf(state, last_op.path)

-----------------------------------------------------------------------------
(* C2 *)

\* what get_symbol and find_by_name return of the symbols of a file
Retrievable(st, path) ==
    [n \in Names |-> Retain(find_by_name(st, n), LAMBDA sym : sym.location.file = path)]

\* C2: clear_file(p) and update_file(p) leave every symbol, name-index entry,
\* call edge and imports entry produced from another file q unchanged and
\* retrievable, also when p and q define the same name at their top level.
C2_InvalidationIsPerFile ==
    [][last_op'.op \in {"clear_file", "update_file"} =>
         \A q \in AbsPaths \ {last_op'.path} :
             /\ SymbolsIn(state', q) = SymbolsIn(state, q)
             /\ Retrievable(state', q) = Retrievable(state, q)
             /\ EdgesIn(state', q) = EdgesIn(state, q)
             /\ ImportsOf(state', q) = ImportsOf(state, q)]_vars

-----------------------------------------------------------------------------
(* C3 *)

SecondCallIsNoOp ==
    /\ run.report.parsed_files = 0
    /\ run.report.skipped_files = run.report.total_files
    /\ run.report.removed_files = 0
    /\ Some(stats(state)) = run.prev_stats

\* C3 as stated: of two consecutive index calls on the same State with no
\* change of the file system in between, the second reports parsed_files = 0,
\* skipped_files = total_files, removed_files = 0 and leaves stats() as the
\* first left it, whatever the options.
C3_SecondCallIsNoOp_AnyOptions ==
    (Returning /\ run.prev_stats # None) => SecondCallIsNoOp

\* C3 amended: the same, for a second call with options.force off.
C3_SecondCallIsNoOp ==
    (Returning /\ run.prev_stats # None /\ ~run.force) => SecondCallIsNoOp

C3_Witness ==
    /\ Returning /\ run.prev_stats # None /\ ~run.force
    /\ run.report.total_files = 2
    /\ run.report.skipped_files = 2
    /\ state.symbol_count > 0

-----------------------------------------------------------------------------
(* C4 *)

\* rel is the one file whose fingerprint changed since the previous index call
\* returned Ok: it was indexed then, and no other file changed
OnlyChange(rel) ==
    /\ run.prev_seen # None
    /\ LET old == run.prev_seen[1]
       IN /\ old[rel] # None
          /\ fs[rel] # None
          /\ fingerprint(fs, rel) # fingerprint(old, rel)
          /\ \A other \in SourceFiles \ {rel} : fs[other] = old[other]

ReindexedAlone(rel) ==
    /\ run.report.parsed_files = 1
    /\ DocsOf(run.docs, rel) = FreshDocs(rel)
    /\ StoredDocs(state_bin) = run.docs
    /\ \A other \in SourceFiles \ {rel} :
           fs[other] # None => DocsOf(run.docs, other) = DocsOf(run.start_docs, other)

-----------------------------------------------------------------------------
(* C5 *)

\* the files manifest.json recorded when the call started that are gone
Gone == run.start_files \ Discovered

RemovedEverywhere(rel) ==
    /\ rel \notin StoredFiles(manifest_json)
    /\ DocsOf(StoredDocs(state_bin), rel) = <<>>
    /\ state.bm25_index = Some(rebuild_bm25(StoredDocs(state_bin)))
    /\ load_bm25(bm25_bin).value = state.bm25_index
    /\ NoTraceOf(state, path_join(Root, rel))

\* C5 as stated: a file recorded in the manifest and no longer discovered is
\* counted in removed_files by the next index run, which drops its manifest
\* entry, its search documents (BM25 index and state.bin) and its symbols,
\* call edges and imports.
C5_RemovedFileIsDropped_AnyRun ==
    Returning =>
        /\ run.report.removed_files = Cardinality(Gone)
        /\ \A rel \in Gone : RemovedEverywhere(rel)

\* C5 amended: the same; the file is counted in removed_files when the run
\* loads the stored manifest (force off, same tool version and root) instead
\* of purging the cache.
C5_RemovedFileIsDropped ==
    Returning =>
        /\ ~run.purged => run.report.removed_files = Cardinality(Gone)
        /\ \A rel \in Gone : RemovedEverywhere(rel)

C5_Witness ==
    /\ Returning /\ ~run.purged /\ ~run.force
    /\ run.report.removed_files = 1
    /\ \E rel \in Gone : DocsOf(run.start_docs, rel) # <<>>
    /\ run.docs # <<>>

-----------------------------------------------------------------------------
(* C6 *)

\* C6: when the update of a file fails during an index run, the manifest the
\* run persists does not record the new fingerprint of the file, so that the
\* next run classifies the file as changed.
C6_FailedUpdateStaysStale ==
    Returning =>
        \A rel \in run.failed :
            ~is_unchanged(Decode(manifest_json[1]), rel, fingerprint(fs, rel))

-----------------------------------------------------------------------------
(* C7 *)

DocResolves(doc) ==
    /\ get_symbol(state, doc.symbol) # None
    /\ relative_path(Root, get_symbol(state, doc.symbol)[1].location.file) = doc.file

\* every scoped name a file registered resolves to a symbol of that file: no
\* two files have written the same key of state.symbols
Coherent(st) ==
    \A path \in DOMAIN st.file_ids :
        st.file_ids[path] \in DOMAIN st.file_symbols =>
            \A i \in DOMAIN st.file_symbols[st.file_ids[path]] :
                LET sym == get_symbol(st, st.file_symbols[st.file_ids[path]][i])
                IN sym # None /\ sym[1].location.file = path

\* C7: after index returns Ok, the key set of the manifest is the set of
\* discovered source files, the persisted documents are those the in-memory
\* BM25 index was built from, and every persisted document names a symbol that
\* get_symbol resolves to a symbol of the document's file; also on a new State
\* over an existing cache. Stated for the runs that end with a State in which
\* no two files share a scoped name.
C7_DiskAgreesWithMemory ==
    (Returning /\ Coherent(state)) =>
        /\ StoredFiles(manifest_json) = Discovered
        /\ state.bm25_index = Some(rebuild_bm25(StoredDocs(state_bin)))
        /\ \A i \in DOMAIN StoredDocs(state_bin) : DocResolves(StoredDocs(state_bin)[i])

-----------------------------------------------------------------------------
(* C8 *)

CleanManifest ==
    [IndexManifest_new(ToolVersion) EXCEPT
        !.files = [rel \in Discovered |-> fingerprint(fs, rel)]]

CleanDocs == UNION {Range(FreshDocs(rel)) : rel \in Discovered}

\* C8: after an interrupted index run, one uninterrupted run with no further
\* change of the file system ends with the manifest, the documents and the
\* BM25 index of a clean full index of the tree. Stated for the histories in
\* which no read of a file has failed.
C8_OneRunReconciles ==
    (Returning /\ run.after_interrupt /\ ~hist.read_failed) =>
        /\ load_manifest(manifest_json).value = Some(CleanManifest)
        /\ Range(StoredDocs(state_bin)) = CleanDocs
        /\ Len(StoredDocs(state_bin)) = Cardinality(CleanDocs)
        /\ load_bm25(bm25_bin).value = Some(rebuild_bm25(StoredDocs(state_bin)))

-----------------------------------------------------------------------------
(* C9 *)

\* C9: a failure confined to one discovered file at a per-file step of index
\* (fingerprint, read, parse) does not abort the run: index returns Ok.
C9_PerFileFailureDoesNotAbort ==
    ~(result.kind = "err" /\ result.cause = "fingerprint")

-----------------------------------------------------------------------------
(* C10 *)

\* C10: when manifest.json or state.bin exists and cannot be decoded, index
\* purges the cache, rebuilds and returns Ok; it does not return an error.
C10_MalformedCacheIsRebuilt ==
    ~(result.kind = "err" /\ result.cause \in {"load_manifest", "load_search_state"})

-----------------------------------------------------------------------------
(* C11 *)

\* manifest.json decodes and records another tool version or another root
Mismatch(mj) ==
    /\ mj # None
    /\ Decodes("json", mj[1])
    /\ \/ Decode(mj[1]).tool_version # ToolVersion
       \/ Decode(mj[1]).root # Some(CanonicalRoot)

\* the step of index from its entry to the end of the remove_file loop
Classified == pc = "idle" /\ pc' = "update"

\* C11: when the stored manifest records another tool version or another
\* canonical root and force is off, index purges the cache directory, resets
\* the State, classifies every discovered file as changed (skipped_files = 0)
\* and carries over no search document of the old cache.
C11_MismatchPurges ==
    [][(Classified /\ ~run'.force /\ Mismatch(manifest_json)) =>
          /\ manifest_json' = None /\ state_bin' = None /\ bm25_bin' = None
          /\ state' = OciState_new
          /\ run'.changed_files = Discovered
          /\ run'.report.skipped_files = 0
          /\ run'.report.removed_files = 0
          /\ run'.docs = <<>>]_vars

C11_Witness ==
    /\ pc = "update" /\ run.purged /\ ~run.force
    /\ run.start_files # {} /\ run.start_docs # <<>>
    /\ run.start_stats # None /\ run.start_stats[1].symbol_count > 0
    /\ run.changed_files # {}
    /\ state = OciState_new /\ run.docs = <<>>

-----------------------------------------------------------------------------
(* C12 *)

\* in a set of <<path, FileId>> pairs every path has one FileId and every
\* FileId one path
OneToOne(pairs) == \A x, y \in pairs : (x[1] = y[1]) <=> (x[2] = y[2])

\* C12 as stated: over any sequence of get_or_create_file_id, clear_file and
\* reset calls in one process, two distinct paths never receive the same
\* FileId and a path always receives the FileId of its first sight.
C12_FileIdsUnique_AcrossReset == OneToOne(issued.ever)

\* C12 amended: the same over the calls made since the last reset (or since
\* the State was created).
C12_FileIdsUnique == OneToOne(issued.now)

C12_Witness ==
    /\ Cardinality(issued.now) = 3
    /\ issued.ever # issued.now
    /\ last_op.op = "clear_file"
    /\ state.file_id_counter = 3

-----------------------------------------------------------------------------
(* C13 *)

\* no thread is inside get_or_create_file_id
Quiet == \A t \in Threads : threads[t].pc \in {"idle", "done"}

\* C13: when two threads call get_or_create_file_id at the same time for the
\* same path, both receive the same FileId, that FileId is the one stored for
\* the path, and the id counter and file_count advance by one per path.
C13_ConcurrentGetIsIdempotent ==
    /\ \A t1, t2 \in Threads :
           (/\ threads[t1].pc = "done" /\ threads[t2].pc = "done"
            /\ threads[t1].path = threads[t2].path)
           => /\ threads[t1].ret = threads[t2].ret
              /\ Get(state.file_ids, threads[t1].path) = threads[t1].ret
    /\ Quiet => /\ state.file_id_counter = Cardinality(DOMAIN state.file_ids)
                /\ state.file_count = Cardinality(DOMAIN state.file_ids)

-----------------------------------------------------------------------------
(* C14 *)

ScopedNames == {<<"crate", n>> : n \in Names}

\* C14: after reset() returns, whatever operations preceded it, stats()
\* reports zero files, symbols, call edges and topology nodes and false for
\* both auxiliary-index booleans, every lookup returns nothing, and the next
\* new path receives FileId 0.
C14_ResetEmptiesEverything ==
    last_op.op = "reset" =>
        /\ stats(state) = [file_count |-> 0, symbol_count |-> 0, call_edge_count |-> 0,
                           topology_node_count |-> 0, has_semantic_index |-> FALSE,
                           has_bm25_index |-> FALSE]
        /\ \A sc \in ScopedNames : get_symbol(state, sc) = None /\ find_callees(state, sc) = <<>>
        /\ \A n \in Names : find_by_name(state, n) = <<>> /\ find_callers(state, n) = <<>>
        /\ \A p \in AbsPaths : get_or_create_file_id(state, p).file_ids[p] = 0

-----------------------------------------------------------------------------
(* C15 *)

\* C15: after any sequence of add_symbol, clear_file and reset calls,
\* stats().symbol_count is the number of symbols stored in the State, also
\* when a scoped name was added more than once.
C15_SymbolCountIsAccurate ==
    stats(state).symbol_count = Cardinality(DOMAIN state.symbols)

-----------------------------------------------------------------------------
(* C16 *)

\* the symbols stored in the State whose simple name is n
StoredNamed(st, n) == {st.symbols[k] : k \in {x \in DOMAIN st.symbols : st.symbols[x].name = n}}

FindByNameIsExact == \A n \in Names : Range(find_by_name(state, n)) = StoredNamed(state, n)

\* every scoped name listed under a simple name, or stored with one, ends
\* with that simple name
NamesAgree(st) ==
    /\ \A n \in DOMAIN st.name_to_scoped :
           \A i \in DOMAIN st.name_to_scoped[n] :
               st.name_to_scoped[n][i][Len(st.name_to_scoped[n][i])] = n
    /\ \A k \in DOMAIN st.symbols : k[Len(k)] = st.symbols[k].name

\* C16 as stated: after any sequence of add_symbol and clear_file calls,
\* find_by_name(n) returns exactly the stored symbols whose simple name is n.
C16_FindByNameIsExact_AnySymbol == FindByNameIsExact

\* C16 amended: the same, when the scoped name of every symbol added ends
\* with its simple name, so that no scoped name is added under two simple
\* names.
C16_FindByNameIsExact == NamesAgree(state) => FindByNameIsExact

C16_Witness ==
    /\ NamesAgree(state)
    /\ last_op.op = "clear_file"
    /\ Cardinality(DOMAIN state.symbols) = 1
    /\ \E n \in Names : find_by_name(state, n) # <<>>
    /\ \E n \in DOMAIN state.name_to_scoped : state.name_to_scoped[n] = <<>>

-----------------------------------------------------------------------------
(* C17 *)

\* the symbol definitions the parser extracts from the files of the tree
Extracted ==
    UNION {Range(extract_symbols(fs[rel][1].contents, path_join(Root, rel))) :
             rel \in Discovered}

\* C17: when an index run over a source tree returns Ok having read every
\* changed file, no two symbol definitions extracted from the files of the
\* tree, of one file or of two, carry the same scoped name.
C17_ScopedNamesAreUnique ==
    (Returning /\ run.failed = {}) =>
        \A s1, s2 \in Extracted : s1 # s2 => s1.scoped_name # s2.scoped_name

-----------------------------------------------------------------------------
(* C18 *)

Stored(st) == {st.symbols[k] : k \in DOMAIN st.symbols}

\* one step of reachability as the property words it: from a stored symbol
\* along a call edge to every stored symbol of the callee's simple name, and
\* from a stored symbol to its parent
ReachStep(st, R) ==
    {t.scoped_name : t \in {x \in Stored(st) :
        \E i \in DOMAIN st.call_edges :
            st.call_edges[i].caller \in R /\ st.call_edges[i].callee_name = x.name}}
    \cup {x.parent[1] : x \in {y \in Stored(st) : y.scoped_name \in R /\ y.parent # None}}

RECURSIVE ReachableFrom(_, _)
ReachableFrom(st, R) ==
    IF ReachStep(st, R) \subseteq R THEN R ELSE ReachableFrom(st, R \cup ReachStep(st, R))

\* C18: in the report analyze returns for a State, no entry point is in
\* dead_symbols, and no symbol reachable from an entry point along call edges
\* (the callee's simple name resolved to every symbol of that name) and parent
\* links, in one step or in several, is in dead_symbols.
C18_ReachableIsNotDead ==
    last_op.op = "analyze" =>
        /\ last_op.report.entry_points \cap last_op.report.dead_symbols = {}
        /\ ReachableFrom(state, last_op.report.entry_points)
               \cap last_op.report.dead_symbols = {}

\* a report with an entry point, a symbol reached only in two steps, one of
\* them a parent link, two symbols of one simple name reached by one call,
\* and a dead symbol
C18_Witness ==
    /\ last_op.op = "analyze"
    /\ <<"crate", "main">> \in last_op.report.entry_points
    /\ get_symbol(state, <<"crate", "foo">>) # None
    /\ get_symbol(state, <<"crate", "h", "foo">>) # None
    /\ get_symbol(state, <<"crate", "h">>) # None
    /\ {<<"crate", "foo">>, <<"crate", "h", "foo">>, <<"crate", "h">>}
           \cap last_op.report.entry_points = {}
    /\ {<<"crate", "foo">>, <<"crate", "h", "foo">>, <<"crate", "h">>}
           \subseteq ReachableFrom(state, last_op.report.entry_points)
    /\ ReachStep(state, {<<"crate", "main">>}) = {<<"crate", "foo">>, <<"crate", "h", "foo">>}
    /\ last_op.report.dead_symbols # {}

-----------------------------------------------------------------------------
(* C19 *)

\* the methods the Rust parser extracts from the impl blocks of a source
MethodsOf(src, path) ==
    {sym \in Range(extract_symbols(src, path)) : sym.kind = "Method"}

\* C19: after Rust sources were indexed through index_file, every method of
\* an impl block that the State holds is an entry point of the analysis and
\* is not in dead_symbols, also when it is private and nothing calls it.
C19_ImplMethodsAreEntryPoints ==
    last_op.op = "analyze" =>
        \A p \in AbsPaths, src \in DeadSources :
            \A sym \in MethodsOf(src, p) :
                get_symbol(state, sym.scoped_name) = Some(sym) =>
                    /\ sym.scoped_name \in last_op.report.entry_points
                    /\ sym.scoped_name \notin last_op.report.dead_symbols

-----------------------------------------------------------------------------
(* C20 *)

\* the document a result was made from passes every filter
Satisfies(r, filters) ==
    /\ filters.include_paths # <<>> =>
          \E i \in DOMAIN filters.include_paths : contains(Pieces(r.file), filters.include_paths[i])
    /\ \A i \in DOMAIN filters.exclude_paths : ~contains(Pieces(r.file), filters.exclude_paths[i])
    /\ filters.include_exts # <<>> =>
          \E i \in DOMAIN filters.include_exts : filters.include_exts[i] = <<Extension(r.file)>>
    /\ \A i \in DOMAIN filters.exclude_exts : filters.exclude_exts[i] # <<Extension(r.file)>>

\* C20: execute_query returns at most K results, each of them passes every
\* filter (some path: substring when one is given, no -path: substring, an
\* extension of the ext: list when one is given, no extension of the -ext:
\* list), and they are ordered by score descending, then file ascending, then
\* start_byte ascending.
C20_QueryResultsAreFilteredAndOrdered ==
    last_op.op = "execute_query" =>
        LET results == last_op.response.results
        IN /\ Len(results) <= last_op.response.top_k
           /\ \A i \in DOMAIN results : Satisfies(results[i], last_op.filters)
           /\ \A i, j \in DOMAIN results :
                  i < j =>
                     \/ results[i].score > results[j].score
                     \/ /\ results[i].score = results[j].score
                        /\ file_lt(results[i].file, results[j].file)
                     \/ /\ results[i].score = results[j].score
                        /\ results[i].file = results[j].file
                        /\ results[i].start_byte <= results[j].start_byte

\* a query with path: and -ext: filters over three documents or more, cut
\* to two results of equal score that the index holds in the other order
C20_Witness ==
    /\ last_op.op = "execute_query"
    /\ last_op.filters.include_paths # <<>>
    /\ last_op.filters.exclude_exts # <<>>
    /\ Len(last_op.response.results) = 2
    /\ last_op.response.results[1].score = last_op.response.results[2].score
    /\ last_op.response.results[1].doc_id > last_op.response.results[2].doc_id
    /\ Len(StoredDocs(state_bin)) > 2

-----------------------------------------------------------------------------
(* C21 *)

hello == <<"h", "e", "l", "l", "o">>
world == <<"w", "o", "r", "l", "d">>

\* C21: the lower-cased tokens of each of HelloWorld, hello_world and
\* helloWorld2X hold hello, world and the compound itself; those of
\* HTTPServer2 hold http and server, or the compound.
C21_TokenizeSplitsIdentifiers ==
    last_op.op = "tokenize" =>
        /\ last_op.text \in {HelloWorld, hello_world, helloWorld2X} =>
              {hello, world, to_ascii_lowercase(last_op.text)} \subseteq Range(last_op.tokens)
        /\ last_op.text = HTTPServer2 =>
              \/ {<<"h", "t", "t", "p">>, <<"s", "e", "r", "v", "e", "r">>}
                     \subseteq Range(last_op.tokens)
              \/ to_ascii_lowercase(HTTPServer2) \in Range(last_op.tokens)

-----------------------------------------------------------------------------
(* C22 *)

\* the relevance scores the State stores
relevance_scores == [n \in DOMAIN state.topology_metrics |->
                        state.topology_metrics[n].relevance_score]

\* the last call has computed the scores
Scored == last_op.op = "compute_pagerank" \/ (last_op.op = "build" /\ last_op.returned)

-----------------------------------------------------------------------------
(* C27 *)

\* the segments of an import path, the runs of characters between "::"
Segments(text) ==
    { SubSeq(text, i[1], i[2]) : i \in
        { <<a, b>> \in (1..Len(text)) \X (1..Len(text)) :
            /\ a <= b
            /\ \A k \in a..b : text[k] # ":"
            /\ a = 1 \/ text[a - 1] = ":"
            /\ b = Len(text) \/ text[b + 1] = ":" } }

\* the name a node goes by: crate name, module name or file stem
NodeName(node) == IF node.kind = "File" THEN file_stem(node.path) ELSE node.name

\* the nodes of one kind whose name is a whole segment of the import path
NamedIn(graph, kind, import_path) ==
    {n \in DOMAIN graph.nodes :
        graph.nodes[n].kind = kind /\ NodeName(graph.nodes[n]) \in Segments(import_path)}

\* the nodes an import is to be bound to: a crate before a module before a file
Preferred(graph, import_path) ==
    IF NamedIn(graph, "Crate", import_path) # {} THEN NamedIn(graph, "Crate", import_path)
    ELSE IF NamedIn(graph, "Module", import_path) # {}
    THEN NamedIn(graph, "Module", import_path)
    ELSE NamedIn(graph, "File", import_path)

\* C27: once build has been called on a tree, every import of a file with a
\* node has an Imports edge from that node to a node whose name is a whole
\* segment of the import path, a crate before a module before a file, and an
\* import that names no node has no edge.
C27_ImportsBoundByPreference ==
    last_op.op = "build" =>
        \A m \in import_map(state) :
            LET edges == state.topology.edges
                bound == {i \in DOMAIN edges :
                            /\ edges[i].source = m.source_node
                            /\ edges[i].weight.kind = "Imports"
                            /\ edges[i].weight.use_path = m.import.path}
                preferred == Preferred(state.topology, m.import.path)
            IN /\ preferred = {} => bound = {}
               /\ preferred # {} =>
                     bound # {} /\ \A i \in bound : edges[i].target \in preferred

-----------------------------------------------------------------------------
(* C23 *)

\* C23: suggest_alternatives returns at most 10 interventions, and they are in
\* the order of their similarity scores, the highest first.
C23_AtMostTenSortedSuggestions ==
    last_op.op = "suggest_alternatives" =>
        /\ Len(last_op.interventions) <= 10
        /\ \A i, j \in DOMAIN last_op.interventions :
              i < j => last_op.interventions[i].similarity_score
                          >= last_op.interventions[j].similarity_score

-----------------------------------------------------------------------------
(* C24 *)

\* the part of a State the queries are to leave alone: the file-id map, the
\* FileId counter, the statistics and the indexes
Indexed(st) ==
    [file_ids |-> st.file_ids, file_id_counter |-> st.file_id_counter,
     stats |-> stats(st), symbols |-> st.symbols, name_to_scoped |-> st.name_to_scoped,
     file_symbols |-> st.file_symbols, call_edges |-> st.call_edges,
     imports |-> st.imports, topology |-> st.topology, bm25_index |-> st.bm25_index]

\* C24: after build_context the file-id map, the FileId counter, stats() and
\* every index of the State are what they were before the call, also when the
\* file of the query has never been indexed.
C24_BuildContextLeavesStateAlone ==
    last_op.op = "build_context" => Indexed(state) = Indexed(last_op.before)

-----------------------------------------------------------------------------
(* C25 *)

\* C25: build_context returns Ok or Err for every file, line, number of
\* surrounding lines and token budget; it never panics.
C25_BuildContextNeverPanics ==
    last_op.op = "build_context" => last_op.outcome \in {"Ok", "Err"}

-----------------------------------------------------------------------------
(* C26 *)

\* the postings of a term for one document
PostingsFor(index, term, doc_id) ==
    {i \in DOMAIN index.inv[term] : index.inv[term][i].doc_id = doc_id}

\* the terms of the tokens a document was added with
TermsOf(tokens) == {lower_token(tokens[i]) : i \in {j \in DOMAIN tokens : tokens[j] # ""}}

\* the sum over the terms of the index of the frequency of the term in the
\* field of the document
RECURSIVE TotalTf(_, _, _, _)
TotalTf(index, terms, doc_id, field) ==
    IF terms = {} THEN 0
    ELSE LET term == CHOOSE t \in terms : TRUE
             at == PostingsFor(index, term, doc_id)
         IN Sum([i \in at |-> index.inv[term][i].tf_by_field[field]], at)
               + TotalTf(index, terms \ {term}, doc_id, field)

\* C26: after add_document calls followed by finalize, every term has at most
\* one posting per document and its postings are in strictly increasing order
\* of document id, df of a term is the number of documents that contain it,
\* and for every document and field the term frequencies over all terms add
\* up to the recorded length of the field.
C26_PostingsAgreeWithDocuments ==
    last_op.op = "finalize" =>
        LET index == last_op.index
        IN /\ \A term \in DOMAIN index.inv :
                 \A i, j \in DOMAIN index.inv[term] :
                    i < j => index.inv[term][i].doc_id < index.inv[term][j].doc_id
           /\ DOMAIN index.df = UNION {TermsOf(last_op.added[d]) : d \in DOMAIN last_op.added}
           /\ \A term \in DOMAIN index.df :
                 index.df[term] = Cardinality({d \in DOMAIN last_op.added :
                                                  term \in TermsOf(last_op.added[d])})
           /\ \A d \in DOMAIN index.docs : \A field \in 1..5 :
                 TotalTf(index, DOMAIN index.inv, d - 1, field)
                    = index.docs[d].len_by_field[field]

\* an index finalized after a term was added twice to the same field of one
\* document, in two spellings, and once more to a later document
C26_Witness ==
    /\ last_op.op = "finalize"
    /\ Len(last_op.index.docs) >= 2
    /\ "foo" \in DOMAIN last_op.index.df
    /\ last_op.index.df["foo"] >= 2
    /\ \E i \in DOMAIN last_op.index.inv["foo"] :
          last_op.index.inv["foo"][i].tf_by_field[CodeField] >= 2

-----------------------------------------------------------------------------
(* C28 *)

\* the scored documents of the queried index that pass the filters
Matching ==
    LET index == load_search_index(state_bin, bm25_bin)[1]
    IN {d \in scores_of(index.bm25, tokenize(last_op.response.query)) :
           /\ d.doc_id < Len(index.docs)
           /\ matches_filters(index.docs[d.doc_id + 1], last_op.filters)}

-----------------------------------------------------------------------------
(* C29 *)

\* C29: between two index runs, whenever state.bin and bm25.bin both load,
\* also after a run that failed or stopped between the two writes, the BM25
\* index of bm25.bin is the one rebuild_bm25 builds from the documents of
\* state.bin, so a doc-id scored by the index names the scored document.
C29_Bm25BuiltFromStoredDocs ==
    (pc = "idle" /\ load_search_index(state_bin, bm25_bin) # None) =>
        LET index == load_search_index(state_bin, bm25_bin)[1]
        IN index.bm25 = rebuild_bm25(index.docs)

-----------------------------------------------------------------------------
(* C30 *)

\* C30: compute_reachable terminates on every State, whatever cycles its
\* calls and parents form and whatever names they leave unresolved: the
\* queue runs empty, no scoped name is pushed twice, the loop takes one turn
\* for each push, and the set returned is the set analyze builds on.
C30_EachNameEnqueuedOnce ==
    last_op.op = "compute_reachable" =>
        LET bfs == last_op.bfs
        IN /\ bfs.queue = <<>>
           /\ \A i, j \in DOMAIN bfs.pushed : i # j => bfs.pushed[i] # bfs.pushed[j]
           /\ bfs.turns = Len(bfs.pushed)
           /\ Range(bfs.pushed) = bfs.reachable
           /\ bfs.reachable = compute_reachable(state, Range(last_op.entry_points))

\* a traversal over self-recursion, mutual recursion, a parent cycle, a call
\* of a name that no symbol bears and a parent that is not stored
C30_Witness ==
    /\ last_op.op = "compute_reachable"
    /\ Len(last_op.entry_points) = 2
    /\ {[caller |-> e.caller, callee_name |-> e.callee_name] : e \in Range(state.call_edges)}
           = {[caller |-> e.caller, callee_name |-> e.callee_name] : e \in ReachEdges}
    /\ get_symbol(state, <<"crate", "foo">>) # None
    /\ get_symbol(state, <<"crate", "bar">>) # None
    /\ get_symbol(state, <<"crate", "foo">>)[1].parent = Some(<<"crate", "bar">>)
    /\ get_symbol(state, <<"crate", "bar">>)[1].parent = Some(<<"crate", "foo">>)
    /\ get_symbol(state, <<"crate", "h">>) # None
    /\ get_symbol(state, <<"crate", "gone">>) = None
    /\ last_op.bfs.reachable =
           {<<"crate", "foo">>, <<"crate", "bar">>, <<"crate", "h">>, <<"crate", "gone">>}

====
